---- MODULE Spec2Model ----
(***************************************************************************)
(* A model of the zkmerkle proof-of-solvency pipeline: the verifier's      *)
(* batch mode (src/unnamed/part_005), the prover coordinator and its       *)
(* batch/proof tables (src/unnamed/part_001, part_004) and the witness     *)
(* builder with its recovery (src/unnamed/part_004, part_003).             *)
(*                                                                         *)
(* Each component has its own variables, initial predicate and actions; a  *)
(* specification of one component holds the variables of the others at     *)
(* their initial value.                                                    *)
(*                                                                         *)
(* 32-byte values (tree roots, commitments) are natural numbers.  Poseidon *)
(* is a collision-free function on the value range of the model.           *)
(***************************************************************************)
EXTENDS Integers, Sequences, FiniteSets, TLC

(***************************************************************************)
(* Bounds                                                                  *)
(***************************************************************************)
\* largest number of rows of the proof CSV export read by the verifier
MaxBatches == 3
\* workersNum of the verifier (max(16, NumCPU) in the code)
VerifyWorkers == 2
\* number of BatchWitness rows seen by the prover workers
NumHeights == 2
\* number of concurrent prover workers
NumProvers == 2
\* largest length of the task queue at start
MaxQueueLen == 2
\* number of asset indexes of the CEX asset list (AssetCounts, 500 in the code)
AssetCounts == 2
\* capacity of the channel from the witness builder to its writer (100 in the code)
ChanCap == 2
\* largest number of accounts of one asset-count tier in the user data
MaxTierAccounts == 3
\* largest number of times the witness builder is started
MaxRuns == 3
\* workersNum of the witness builder's account hashing (NumCPU - 2 in the code)
HashWorkers == 3

VARIABLES
    \* ---- verifier, batch mode (part_005 main) ----
    proofs,                      \* proofs[k+1]: the CSV row of batch_number k
    verifierConfig,              \* declared CexAssetsInfo totals
    vpc,                         \* "config" | "parallel" | "serial" | "passed" | "panic"
    panicMsg,                    \* <<message, batch>> of the panic, or <<>>
    wJ,                          \* wJ[i]: loop index j of verify worker i
    wDone,                       \* wDone[i]: worker i returned (wg.Done)
    proofMap,                    \* safeProofMap.proofMap: batch -> ProofMetaData
    prevAccountTreeRoots,
    prevCexAssetListCommitments,
    serialBatch,                 \* batchNumber of the serial pass
    finalCexAssetsInfoComm,
    expectFinalCexAssetsInfoComm,
    \* ---- prover coordinator (part_001 Prover.Run) and its stores ----
    witnessStatus,               \* witness table: height -> Status
    taskQueue,                   \* redis list; the head is what BRPop takes next
    proofTable,                  \* proof table: set of rows
    ppc,                         \* ppc[w]: position of prover worker w in Run
    pmode,                       \* pmode[w]: "normal" | "rerun" (the --rerun flag)
    batchHeight,                 \* batchHeight[w]: height the worker is working on
    pexit,                       \* pexit[w]: why Run returned, "" while running
    fetched,                     \* fetched[w]: heights whose witness w has fetched
    claimedBy,                   \* claimedBy[h]: workers GetAndUpdate...ByHeight returned h to
    \* ---- witness builder (part_004 Witness.Run): what outlives the process ----
    userData,                    \* the user data set: tier -> accounts
    witnessTable,                \* rows of the witness table in insertion order
    treeVersions,                \* tree store: retained version -> root
    treeLatest,                  \* accountTree.LatestVersion()
    runs,                        \* number of times Run was started
    \* ---- witness builder: the memory of the running process ----
    bpc,                         \* position of Run's main goroutine
    builderPanic,                \* message of the panic, "" if none
    ops,                         \* w.ops
    cexAssets,                   \* w.cexAssets: asset index -> totals
    treeRoot,                    \* accountTree.Root(), uncommitted Sets included
    ch,                          \* w.ch
    chClosed,                    \* close(w.ch) happened
    quit,                        \* w.quit holds a value
    currentBatchNumber,          \* w.currentBatchNumber
    recoveredBatchNum,
    startBatchNum,
    tierPos,                     \* p of the loop over batchNumberMappingKeys
    batchIdx,                    \* i of the loop over the batches
    opIdx,                       \* j of the loop over the accounts of a batch
    wit,                         \* batchCreateUserWit, then the encoded row
    wpc,                         \* position of WriteBatchWitnessToDB
    wData,                       \* the row the writer took from the channel
    hashPos,                     \* hashPos[index]: next (batch, account) of hasher worker index
    accountHashChan,             \* w.accountHashChan: tier -> slot -> hash waiting in it
    \* ---- ReadUserDataFromCsvFile (part_003 590-731) ----
    csvCexAssetsInfo,            \* cexAssetsInfo: asset index -> price and tier ratios
    csvPc,                       \* position in the loop over the rows
    csvI,                        \* i: rows of data read so far
    csvJ,                        \* j of the loop over the assets of the row
    csvRow,                      \* the cells of data[i] read so far
    csvAccount,                  \* account, being filled from the row
    invalidAccountFlag,
    csvAccounts,                 \* accounts: tier -> accepted accounts
    invalidCounts,
    accountIndex,
    \* ---- a call of a function of package utils ----
    utilCall,                    \* <<name of the function, its arguments>>
    utilResult,                  \* <<what the call returned>>, <<>> before it returns
    \* ---- the SNARK parameters of a prover (part_001 244-398) ----
    snarkPc,                     \* position in GenerateAndVerifyProof
    snarkConfig,                 \* p.AssetsCountTiers, SessionName[i] the files of tier i
    snarkBatches,                \* asset counts of the first operation of the batches to prove
    targerAssetsCount,           \* argument of LoadSnarkParamsOnce
    CurrentSnarkParamsInUse,
    R1cs,                        \* tier whose .r1cs file p.R1cs was read from, 0: none
    ProvingKey,                  \* tier whose .pk file p.ProvingKey was read from
    VerifyingKey,                \* tier whose .vk file p.VerifyingKey was read from
    \* ---- the user proof exporter (src/userproof/main.go) ----
    accountsMap,                 \* asset key -> the accounts of the key, in file order
    userproofTable,              \* rows of the userproof table, in insert order
    epc,                         \* position of main
    exportRuns,                  \* number of starts of the exporter
    currentAccountCounts,
    prevAccountCounts,
    totalCounts,
    keyPos,                      \* position in accountAssetKeys
    jobI,                        \* i of the job loop
    jobs,                        \* the jobs channel
    jobsClosed,
    results,                     \* the results channel
    resultsClosed,
    nums,                        \* the nums channel
    exportQuit,                  \* the quit channel
    workerPc,
    workerJob,                   \* the job the worker holds
    workerNum,                   \* num of worker
    writerPc,
    dbProofs,                    \* proofs[:index] of WriteDB
    writerNum                    \* num of WriteDB

verifierVars == <<proofs, verifierConfig, vpc, panicMsg, wJ, wDone, proofMap,
                  prevAccountTreeRoots, prevCexAssetListCommitments, serialBatch,
                  finalCexAssetsInfoComm, expectFinalCexAssetsInfoComm>>

proverVars == <<witnessStatus, taskQueue, proofTable, ppc, pmode, batchHeight,
                pexit, fetched, claimedBy>>

builderVars == <<userData, witnessTable, treeVersions, treeLatest, runs, bpc, builderPanic,
                 ops, cexAssets, treeRoot, ch, chClosed, quit, currentBatchNumber,
                 recoveredBatchNum, startBatchNum, tierPos, batchIdx, opIdx, wit, wpc, wData,
                 hashPos, accountHashChan>>

csvVars == <<csvCexAssetsInfo, csvPc, csvI, csvJ, csvRow, csvAccount, invalidAccountFlag,
             csvAccounts, invalidCounts, accountIndex>>

utilVars == <<utilCall, utilResult>>

snarkVars == <<snarkPc, snarkConfig, snarkBatches, targerAssetsCount,
               CurrentSnarkParamsInUse, R1cs, ProvingKey, VerifyingKey>>

exporterVars == <<accountsMap, userproofTable, epc, exportRuns, currentAccountCounts,
                  prevAccountCounts, totalCounts, keyPos, jobI, jobs, jobsClosed, results,
                  resultsClosed, nums, exportQuit, workerPc, workerJob, workerNum, writerPc,
                  dbProofs, writerNum>>

vars == <<verifierVars, proverVars, builderVars, csvVars, utilVars, snarkVars, exporterVars>>

\* what a step of one component leaves alone
notVerifierVars == <<proverVars, builderVars, csvVars, utilVars, snarkVars, exporterVars>>
notProverVars == <<verifierVars, builderVars, csvVars, utilVars, snarkVars, exporterVars>>
notBuilderVars == <<verifierVars, proverVars, csvVars, utilVars, snarkVars, exporterVars>>
notCsvVars == <<verifierVars, proverVars, builderVars, utilVars, snarkVars, exporterVars>>
notUtilVars == <<verifierVars, proverVars, builderVars, csvVars, snarkVars, exporterVars>>
notSnarkVars == <<verifierVars, proverVars, builderVars, csvVars, utilVars, exporterVars>>
notExporterVars == <<verifierVars, proverVars, builderVars, csvVars, utilVars, snarkVars>>

\* a byte slice that was never assigned
Nil == -1

(***************************************************************************)
(* Commitments                                                             *)
(***************************************************************************)
\* every root and every CEX commitment of the model is below CommWidth
CommWidth == 2 * MaxBatches + 4

\* poseidonHasher.Write x4 ; Sum: collision-free on (0..CommWidth-1)^4
Poseidon4(a, b, c, d) == ((a * CommWidth + b) * CommWidth + c) * CommWidth + d + 1

\* utils.ComputeCexAssetsCommitment over the declared totals.  Prices and tier
\* ratios are carried unchanged by every commitment of a run and are left out.
ComputeCexAssetsCommitment(info) == 1 + 2 * info.TotalEquity + info.TotalDebt

\* the copy of the declared assets with all totals zeroed
emptyCexAssetsInfo(cfg) == [TotalEquity |-> 0, TotalDebt |-> 0]

\* depth-28 empty account tree root
emptyAccountTreeRoot == 0

(***************************************************************************)
(* The proof table export: an honest chain in which each batch adds one    *)
(* unit of equity, and per batch at most one tampered field.               *)
(***************************************************************************)
HonestRoot(k) == emptyAccountTreeRoot + k
HonestCex(k) == ComputeCexAssetsCommitment([TotalEquity |-> k, TotalDebt |-> 0])
TamperedRoot(k) == HonestRoot(k) + MaxBatches + 1
TamperedCex(k) == ComputeCexAssetsCommitment([TotalEquity |-> k, TotalDebt |-> 1])

Tampers == {"none", "before_root", "after_root", "before_cex", "after_cex", "commitment"}

ProofRow(k, tamper, valid) ==
    LET br == IF tamper = "before_root" THEN TamperedRoot(k) ELSE HonestRoot(k)
        ar == IF tamper = "after_root" THEN TamperedRoot(k + 1) ELSE HonestRoot(k + 1)
        bc == IF tamper = "before_cex" THEN TamperedCex(k) ELSE HonestCex(k)
        ac == IF tamper = "after_cex" THEN TamperedCex(k + 1) ELSE HonestCex(k + 1)
    IN  [BatchNumber        |-> k,
         AccountTreeRoots   |-> <<br, ar>>,
         CexAssetCommitment |-> <<bc, ac>>,
         BatchCommitment    |-> IF tamper = "commitment"
                                THEN Poseidon4(br, TamperedRoot(k + 1), bc, ac)
                                ELSE Poseidon4(br, ar, bc, ac),
         ZkProofValid       |-> valid]     \* what groth16.Verify answers for the row

ProofTables(maxRows) ==
    UNION { { [i \in 1..n |-> ProofRow(i - 1, t[i], v[i])] :
                t \in [1..n -> Tampers], v \in [1..n -> BOOLEAN] } : n \in 0..maxRows }

Configs(n) ==
    { [TotalEquity |-> e, TotalDebt |-> d] :
        e \in {x \in {n - 1, n} : x >= 0}, d \in {0, 1} }

(***************************************************************************)
(* Verifier, batch mode                                                    *)
(***************************************************************************)
Workers == 0..(VerifyWorkers - 1)
averageProofCount == (Len(proofs) + VerifyWorkers - 1) \div VerifyWorkers
startIndex(i) == i * averageProofCount
endIndex(i) ==
    IF (i + 1) * averageProofCount > Len(proofs) THEN Len(proofs)
    ELSE (i + 1) * averageProofCount

VerifierInit ==
    /\ proofs \in ProofTables(MaxBatches)
    /\ verifierConfig \in Configs(Len(proofs))
    /\ vpc = "config"
    /\ panicMsg = <<>>
    /\ wJ = [i \in Workers |-> 0]
    /\ wDone = [i \in Workers |-> FALSE]
    /\ proofMap = <<>>
    /\ prevAccountTreeRoots = <<Nil, Nil>>
    /\ prevCexAssetListCommitments = <<Nil, Nil>>
    /\ serialBatch = 0
    /\ finalCexAssetsInfoComm = Nil
    /\ expectFinalCexAssetsInfoComm = Nil

Panic(msg, batch) ==
    /\ vpc' = "panic"
    /\ panicMsg' = <<msg, batch>>

\* no check of the declared totals
DeclaredTotalsUnchecked(cexAssetInfo) == FALSE

\* part_005 204: a declared asset whose total equity is below its total debt
EquityBelowDebt(cexAssetInfo) == cexAssetInfo.TotalEquity < cexAssetInfo.TotalDebt

\* part_005 190-222: the initial chain state and the declared-asset check
InitChainState ==
    /\ vpc = "config"
    /\ IF EquityBelowDebt(verifierConfig)
       THEN /\ Panic("invalid cex asset info", Nil)
            /\ UNCHANGED <<prevAccountTreeRoots, prevCexAssetListCommitments,
                           expectFinalCexAssetsInfoComm, wJ>>
       ELSE /\ prevAccountTreeRoots' = <<Nil, emptyAccountTreeRoot>>
            /\ prevCexAssetListCommitments' =
                   <<Nil, ComputeCexAssetsCommitment(emptyCexAssetsInfo(verifierConfig))>>
            /\ expectFinalCexAssetsInfoComm' = ComputeCexAssetsCommitment(verifierConfig)
            /\ wJ' = [i \in Workers |-> startIndex(i)]
            /\ vpc' = "parallel"
            /\ UNCHANGED panicMsg
    /\ UNCHANGED notVerifierVars
    /\ UNCHANGED <<proofs, verifierConfig, wDone, proofMap, serialBatch,
                   finalCexAssetsInfoComm>>

\* part_005 282-298: the public input recomputed from the stored roots and commitments
PublicInputMatchesUnchecked(p) == TRUE
PublicInputMatches(p) ==
    Poseidon4(p.AccountTreeRoots[1], p.AccountTreeRoots[2],
              p.CexAssetCommitment[1], p.CexAssetCommitment[2]) = p.BatchCommitment

\* the map with key b set to v
MapPut(m, b, v) == [x \in (DOMAIN m) \cup {b} |-> IF x = b THEN v ELSE m[x]]

\* part_005 252-331: one iteration of a verify worker's loop
VerifyBatch(i) ==
    /\ vpc = "parallel"
    /\ ~wDone[i]
    /\ wJ[i] < endIndex(i)
    /\ LET p == proofs[wJ[i] + 1]
       IN  IF ~PublicInputMatches(p)
           THEN /\ Panic("verify proof failed", p.BatchNumber)
                /\ UNCHANGED <<proofMap, wJ, wDone>>
           ELSE /\ proofMap' = MapPut(proofMap, p.BatchNumber,
                                      [accountTreeRoots        |-> p.AccountTreeRoots,
                                       cexAssetListCommitments |-> p.CexAssetCommitment])
                /\ IF ~p.ZkProofValid
                   THEN \* "proof verify failed": the goroutine returns
                        /\ wDone' = [wDone EXCEPT ![i] = TRUE]
                        /\ UNCHANGED wJ
                   ELSE /\ wJ' = [wJ EXCEPT ![i] = @ + 1]
                        /\ UNCHANGED wDone
                /\ UNCHANGED <<vpc, panicMsg>>
    /\ UNCHANGED notVerifierVars
    /\ UNCHANGED <<proofs, verifierConfig, prevAccountTreeRoots,
                   prevCexAssetListCommitments, serialBatch, finalCexAssetsInfoComm,
                   expectFinalCexAssetsInfoComm>>

\* part_005 252, 333: the loop of a verify worker ends
WorkerReturn(i) ==
    /\ vpc = "parallel"
    /\ ~wDone[i]
    /\ wJ[i] >= endIndex(i)
    /\ wDone' = [wDone EXCEPT ![i] = TRUE]
    /\ UNCHANGED notVerifierVars
    /\ UNCHANGED <<proofs, verifierConfig, vpc, panicMsg, wJ, proofMap,
                   prevAccountTreeRoots, prevCexAssetListCommitments, serialBatch,
                   finalCexAssetsInfoComm, expectFinalCexAssetsInfoComm>>

\* part_005 336: wg.Wait()
WaitWorkers ==
    /\ vpc = "parallel"
    /\ \A i \in Workers : wDone[i]
    /\ vpc' = "serial"
    /\ UNCHANGED notVerifierVars
    /\ UNCHANGED <<proofs, verifierConfig, panicMsg, wJ, wDone, proofMap,
                   prevAccountTreeRoots, prevCexAssetListCommitments, serialBatch,
                   finalCexAssetsInfoComm, expectFinalCexAssetsInfoComm>>

\* part_005 342-347: the chain comparisons of the serial pass
RootMatches(proofData, prevRoots) == proofData.accountTreeRoots[1] = prevRoots[2]
CexMatchesUnchecked(proofData, prevCex) == TRUE
CexMatches(proofData, prevCex) == proofData.cexAssetListCommitments[1] = prevCex[2]

\* part_005 337-352: one iteration of the serial pass
SerialPass ==
    /\ vpc = "serial"
    /\ serialBatch < Len(proofs)
    /\ IF serialBatch \notin DOMAIN proofMap
       THEN /\ Panic("proof data not found", serialBatch)
            /\ UNCHANGED <<prevAccountTreeRoots, prevCexAssetListCommitments,
                           serialBatch, finalCexAssetsInfoComm>>
       ELSE LET proofData == proofMap[serialBatch]
            IN  IF ~RootMatches(proofData, prevAccountTreeRoots)
                THEN /\ Panic("account tree root not match", serialBatch)
                     /\ UNCHANGED <<prevAccountTreeRoots, prevCexAssetListCommitments,
                                    serialBatch, finalCexAssetsInfoComm>>
                ELSE IF ~CexMatches(proofData, prevCexAssetListCommitments)
                THEN /\ Panic("cex asset list commitment not match", serialBatch)
                     /\ UNCHANGED <<prevAccountTreeRoots, prevCexAssetListCommitments,
                                    serialBatch, finalCexAssetsInfoComm>>
                ELSE /\ prevAccountTreeRoots' = proofData.accountTreeRoots
                     /\ prevCexAssetListCommitments' = proofData.cexAssetListCommitments
                     /\ finalCexAssetsInfoComm' = proofData.cexAssetListCommitments[2]
                     /\ serialBatch' = serialBatch + 1
                     /\ UNCHANGED <<vpc, panicMsg>>
    /\ UNCHANGED notVerifierVars
    /\ UNCHANGED <<proofs, verifierConfig, wJ, wDone, proofMap,
                   expectFinalCexAssetsInfoComm>>

\* part_005 355: the comparison with the declared totals
FinalStateMatchesUnchecked(final, expect) == TRUE
FinalStateMatches(final, expect) == final = expect

\* part_005 354-359: the final state check and the report
FinalCheck ==
    /\ vpc = "serial"
    /\ serialBatch = Len(proofs)
    /\ IF ~FinalStateMatches(finalCexAssetsInfoComm, expectFinalCexAssetsInfoComm)
       THEN Panic("Final Cex Assets Info Not Match", Nil)
       ELSE /\ vpc' = "passed"        \* "All proofs verify passed!!!"
            /\ UNCHANGED panicMsg
    /\ UNCHANGED notVerifierVars
    /\ UNCHANGED <<proofs, verifierConfig, wJ, wDone, proofMap,
                   prevAccountTreeRoots, prevCexAssetListCommitments, serialBatch,
                   finalCexAssetsInfoComm, expectFinalCexAssetsInfoComm>>

VerifierNext ==
    \/ InitChainState
    \/ \E i \in Workers : VerifyBatch(i)
    \/ \E i \in Workers : WorkerReturn(i)
    \/ WaitWorkers
    \/ SerialPass
    \/ FinalCheck

\* the verifier before it is started
VerifierIdle ==
    /\ proofs = <<>>
    /\ verifierConfig = [TotalEquity |-> 0, TotalDebt |-> 0]
    /\ vpc = "config"
    /\ panicMsg = <<>>
    /\ wJ = [i \in Workers |-> 0]
    /\ wDone = [i \in Workers |-> FALSE]
    /\ proofMap = <<>>
    /\ prevAccountTreeRoots = <<Nil, Nil>>
    /\ prevCexAssetListCommitments = <<Nil, Nil>>
    /\ serialBatch = 0
    /\ finalCexAssetsInfoComm = Nil
    /\ expectFinalCexAssetsInfoComm = Nil

(***************************************************************************)
(* Prover coordinator, witness table, proof table, task queue              *)
(***************************************************************************)
StatusPublished == 0
StatusReceived == 1
StatusFinished == 2

Heights == 0..(NumHeights - 1)
Provers == 1..NumProvers

\* all sequences over S of length at most n
RECURSIVE SeqsUpTo(_, _)
SeqsUpTo(S, n) ==
    IF n = 0 THEN {<<>>}
    ELSE LET shorter == SeqsUpTo(S, n - 1)
         IN  shorter \cup {Append(q, x) : q \in {r \in shorter : Len(r) = n - 1}, x \in S}

\* the prover workers before they are started, over a witness table written
\* by the witness builder (every row Published)
ProverIdle ==
    /\ witnessStatus = [h \in Heights |-> StatusPublished]
    /\ taskQueue = <<>>
    /\ proofTable = {}
    /\ ppc = [w \in Provers |-> "fetch"]
    /\ pmode = [w \in Provers |-> "normal"]
    /\ batchHeight = [w \in Provers |-> Nil]
    /\ pexit = [w \in Provers |-> ""]
    /\ fetched = [w \in Provers |-> {}]
    /\ claimedBy = [h \in Heights |-> {}]

\* part_004 203-216 CreateBatchWitness (rows in Published), part_001 125-127:
\* workers started in either mode over any content of the task queue; the
\* workers run the same code, so which of them are the normal ones is fixed
ProverInit ==
    /\ witnessStatus = [h \in Heights |-> StatusPublished]
    /\ taskQueue \in SeqsUpTo(Heights, MaxQueueLen)
    /\ proofTable = {}
    /\ ppc = [w \in Provers |-> "fetch"]
    /\ \E n \in 0..NumProvers :
          pmode = [w \in Provers |-> IF w <= n THEN "normal" ELSE "rerun"]
    /\ batchHeight = [w \in Provers |-> Nil]
    /\ pexit = [w \in Provers |-> ""]
    /\ fetched = [w \in Provers |-> {}]
    /\ claimedBy = [h \in Heights |-> {}]

\* part_001 109-120, 153-165: a prover is started with --rerun after earlier
\* provers died or stopped on an error: rows they had dispatched are Received
RerunInit ==
    /\ witnessStatus \in [Heights -> {StatusPublished, StatusReceived}]
    /\ taskQueue \in SeqsUpTo(Heights, MaxQueueLen)
    /\ proofTable = {}
    /\ ppc = [w \in Provers |-> "fetch"]
    /\ \E n \in 0..(NumProvers - 1) :
          pmode = [w \in Provers |-> IF w <= n THEN "normal" ELSE "rerun"]
    /\ batchHeight = [w \in Provers |-> Nil]
    /\ pexit = [w \in Provers |-> ""]
    /\ fetched = [w \in Provers |-> {}]
    /\ claimedBy = [h \in Heights |-> {}]

\* Run returns
Return(w, why) ==
    /\ ppc' = [ppc EXCEPT ![w] = "done"]
    /\ pexit' = [pexit EXCEPT ![w] = why]

\* part_001 78-91 fetchTasksByRedis, 143-147: BRPop takes the oldest height, or
\* times out on an empty queue (redis.Nil) and the worker returns
FetchTasksByRedis(w) ==
    /\ ppc[w] = "fetch"
    /\ pmode[w] = "normal"
    /\ IF taskQueue = <<>>
       THEN /\ Return(w, "no task left in task queue")
            /\ UNCHANGED <<taskQueue, batchHeight>>
       ELSE /\ batchHeight' = [batchHeight EXCEPT ![w] = Head(taskQueue)]
            /\ taskQueue' = Tail(taskQueue)
            /\ ppc' = [ppc EXCEPT ![w] = "select"]
            /\ UNCHANGED pexit
    /\ UNCHANGED <<witnessStatus, proofTable, pmode, fetched, claimedBy>>
    /\ UNCHANGED notProverVars

\* part_004 169-175: the SELECT of GetAndUpdateBatchesWitnessByHeight.  It takes
\* no row lock (the locking clause is commented out at part_004 168), so it is
\* a step of its own: another transaction may read the same row before the
\* UPDATE of this one.
SelectByHeight(w) == witnessStatus[batchHeight[w]] = StatusPublished

GetAndUpdateSelect(w) ==
    /\ ppc[w] = "select"
    /\ IF SelectByHeight(w)
       THEN /\ ppc' = [ppc EXCEPT ![w] = "update"]
            /\ UNCHANGED pexit
       ELSE Return(w, "no published status witness in db")     \* DbErrNotFound
    /\ UNCHANGED <<witnessStatus, taskQueue, proofTable, pmode, batchHeight, fetched,
                   claimedBy>>
    /\ UNCHANGED notProverVars

\* part_004 177-188: the UPDATE by height and the commit; the rows are returned
GetAndUpdateUpdate(w) ==
    /\ ppc[w] = "update"
    /\ witnessStatus' = [witnessStatus EXCEPT ![batchHeight[w]] = StatusReceived]
    /\ claimedBy' = [claimedBy EXCEPT ![batchHeight[w]] = @ \cup {w}]
    /\ fetched' = [fetched EXCEPT ![w] = @ \cup {batchHeight[w]}]
    /\ ppc' = [ppc EXCEPT ![w] = "prove"]
    /\ UNCHANGED <<taskQueue, proofTable, pmode, batchHeight, pexit>>
    /\ UNCHANGED notProverVars

\* part_004 103-111: Where(status).Limit(1) without an order: any row of the status
GetLatestBatchWitnessByStatus(status) == {h \in Heights : witnessStatus[h] = status}

\* part_001 110-111: rerun mode looks for a Received row first
RerunFetchReceived(w) ==
    /\ ppc[w] = "fetch"
    /\ pmode[w] = "rerun"
    /\ IF GetLatestBatchWitnessByStatus(StatusReceived) = {}
       THEN /\ ppc' = [ppc EXCEPT ![w] = "fetchPublished"]
            /\ UNCHANGED <<batchHeight, fetched>>
       ELSE \E h \in GetLatestBatchWitnessByStatus(StatusReceived) :
               /\ batchHeight' = [batchHeight EXCEPT ![w] = h]
               /\ fetched' = [fetched EXCEPT ![w] = @ \cup {h}]
               /\ ppc' = [ppc EXCEPT ![w] = "prove"]
    /\ UNCHANGED <<witnessStatus, taskQueue, proofTable, pmode, pexit, claimedBy>>
    /\ UNCHANGED notProverVars

\* part_001 112-119, 156-164: the fallback to a Published row; the status of
\* the row is not changed
RerunFetchPublished(w) ==
    /\ ppc[w] = "fetchPublished"
    /\ IF GetLatestBatchWitnessByStatus(StatusPublished) = {}
       THEN /\ Return(w, "no received status witness in db")
            /\ UNCHANGED <<batchHeight, fetched>>
       ELSE /\ \E h \in GetLatestBatchWitnessByStatus(StatusPublished) :
                  /\ batchHeight' = [batchHeight EXCEPT ![w] = h]
                  /\ fetched' = [fetched EXCEPT ![w] = @ \cup {h}]
            /\ ppc' = [ppc EXCEPT ![w] = "prove"]
            /\ UNCHANGED pexit
    /\ UNCHANGED <<witnessStatus, taskQueue, proofTable, pmode, claimedBy>>
    /\ UNCHANGED notProverVars

\* part_001 191, 244-277: GenerateAndVerifyProof succeeds
GenerateAndVerifyProof(w) ==
    /\ ppc[w] = "prove"
    /\ ppc' = [ppc EXCEPT ![w] = "exists"]
    /\ UNCHANGED <<witnessStatus, taskQueue, proofTable, pmode, batchHeight, pexit,
                   fetched, claimedBy>>
    /\ UNCHANGED notProverVars

\* the error of GenerateAndVerifyProof is printed and the loop goes on with the
\* existence check
GenerateAndVerifyProofErrorIgnored(w) ==
    /\ ppc[w] = "prove"
    /\ ppc' = [ppc EXCEPT ![w] = "exists"]
    /\ pexit' = [pexit EXCEPT ![w] = "generate and verify proof error"]
    /\ UNCHANGED <<witnessStatus, taskQueue, proofTable, pmode, batchHeight, fetched,
                   claimedBy>>
    /\ UNCHANGED notProverVars

\* part_001 192-195: groth16.Prove or the local groth16.Verify fails
GenerateAndVerifyProofFails(w) ==
    /\ ppc[w] = "prove"
    /\ Return(w, "generate and verify proof error")
    /\ UNCHANGED <<witnessStatus, taskQueue, proofTable, pmode, batchHeight, fetched,
                   claimedBy>>
    /\ UNCHANGED notProverVars

\* GetProofByBatchNumber finds a row whatever the table holds
ProofAlwaysFound(n) == TRUE

\* part_001 551-560 GetProofByBatchNumber
ProofExists(n) == \E row \in proofTable : row.BatchNumber = n

\* part_004 230-238 UpdateBatchWitnessStatus: an UPDATE by height alone
UpdateBatchWitnessStatusDropped(h, status) == UNCHANGED witnessStatus
UpdateBatchWitnessStatus(h, status) ==
    witnessStatus' = [witnessStatus EXCEPT ![h] = status]

\* part_001 212-221: the existence check; an existing proof marks the batch
\* Finished and the worker goes on with the next batch
CheckProofExists(w) ==
    /\ ppc[w] = "exists"
    /\ IF ProofExists(batchHeight[w])
       THEN /\ UpdateBatchWitnessStatus(batchHeight[w], StatusFinished)
            /\ ppc' = [ppc EXCEPT ![w] = "fetch"]
       ELSE /\ ppc' = [ppc EXCEPT ![w] = "create"]
            /\ UNCHANGED witnessStatus
    /\ UNCHANGED <<taskQueue, proofTable, pmode, batchHeight, pexit, fetched, claimedBy>>
    /\ UNCHANGED notProverVars

\* part_001 440, 479-488: Create fails on the unique index of batch_number
InsertAllowedNoUniqueIndex(n) == TRUE
InsertAllowed(n) == ~ProofExists(n)

\* part_001 223-235: CreateProof; a failed insert ends Run
CreateProof(w) ==
    /\ ppc[w] = "create"
    /\ IF InsertAllowed(batchHeight[w])
       THEN /\ proofTable' = proofTable \cup {[BatchNumber |-> batchHeight[w], by |-> w]}
            /\ ppc' = [ppc EXCEPT ![w] = "finish"]
            /\ UNCHANGED pexit
       ELSE /\ Return(w, "create blockProof failed")
            /\ UNCHANGED proofTable
    /\ UNCHANGED <<witnessStatus, taskQueue, pmode, batchHeight, fetched, claimedBy>>
    /\ UNCHANGED notProverVars

\* part_001 236-240: the batch is marked Finished and the loop goes on
MarkFinished(w) ==
    /\ ppc[w] = "finish"
    /\ UpdateBatchWitnessStatus(batchHeight[w], StatusFinished)
    /\ ppc' = [ppc EXCEPT ![w] = "fetch"]
    /\ UNCHANGED <<taskQueue, proofTable, pmode, batchHeight, pexit, fetched, claimedBy>>
    /\ UNCHANGED notProverVars

\* the worker process dies at any point of Run
Crash(w) ==
    /\ ppc[w] \notin {"done", "crashed"}
    /\ ppc' = [ppc EXCEPT ![w] = "crashed"]
    /\ batchHeight' = [batchHeight EXCEPT ![w] = Nil]
    /\ UNCHANGED <<witnessStatus, taskQueue, proofTable, pmode, pexit, fetched, claimedBy>>
    /\ UNCHANGED notProverVars

ProverStep(w) ==
    \/ FetchTasksByRedis(w)
    \/ GetAndUpdateSelect(w)
    \/ GetAndUpdateUpdate(w)
    \/ GenerateAndVerifyProof(w)
    \/ CheckProofExists(w)
    \/ CreateProof(w)
    \/ MarkFinished(w)

ProverNext ==
    \E w \in Provers :
        \/ ProverStep(w)
        \/ RerunFetchReceived(w)
        \/ RerunFetchPublished(w)
        \/ GenerateAndVerifyProofFails(w)
        \/ Crash(w)

\* part_002 115-152, 170-180: every row Published, every height pushed once
\* (in any order), every worker in normal mode
QueueOrders(S) == {q \in SeqsUpTo(S, Cardinality(S)) :
                      Len(q) = Cardinality(S) /\ \A x \in S : \E i \in 1..Len(q) : q[i] = x}

MockProverInit ==
    /\ witnessStatus = [h \in Heights |-> StatusPublished]
    /\ taskQueue \in QueueOrders(Heights)
    /\ proofTable = {}
    /\ ppc = [w \in Provers |-> "fetch"]
    /\ pmode = [w \in Provers |-> "normal"]
    /\ batchHeight = [w \in Provers |-> Nil]
    /\ pexit = [w \in Provers |-> ""]
    /\ fetched = [w \in Provers |-> {}]
    /\ claimedBy = [h \in Heights |-> {}]

\* workers that neither crash nor fail to prove
MockProverNext == \E w \in Provers : ProverStep(w)

\* every goroutine that can take a step is eventually scheduled
MockProverFairness == \A w \in Provers : WF_vars(ProverStep(w))

(***************************************************************************)
(* Witness builder (part_004 Witness.Run), witness table, account tree     *)
(***************************************************************************)
\* opsPerBatch of each asset-count tier (part of the source's table, scaled)
BatchCreateUserOpsCountsTiers == (1 :> 2) @@ (2 :> 1)
\* the tiers' keys in ascending order
AssetCountsTiers == <<1, 2>>

AssetIndexes == 0..(AssetCounts - 1)

\* an account read from the user files: k assets of distinct indexes
UserAccount(idx, k) ==
    [AccountIndex |-> idx,
     AccountId    |-> idx + 1,
     Assets       |-> [p \in 1..k |-> [Index  |-> (idx + p - 1) % AssetCounts,
                                        Equity |-> 1 + (idx % 2),
                                        Debt   |-> idx % 2]]]

\* part_003 291-395, 369-376: accounts by tier, account indexes running across
\* the tiers
ParseUserDataSet(n1, n2) ==
    (1 :> [i \in 1..n1 |-> UserAccount(i - 1, 1)]) @@
    (2 :> [i \in 1..n2 |-> UserAccount(n1 + i - 1, 2)])

UserDataSets == {ParseUserDataSet(n1, n2) : n1 \in 0..MaxTierAccounts, n2 \in 0..MaxTierAccounts}

\* part_003 566-586: AssetCounts entries, totals zero
ParseCexAssetInfoFromFile == [a \in AssetIndexes |-> [TotalEquity |-> 0, TotalDebt |-> 0]]

OpsPerBatch(k) == BatchCreateUserOpsCountsTiers[k]

BatchCounts(accounts, k) == (Len(accounts) + OpsPerBatch(k) - 1) \div OpsPerBatch(k)

\* padding accounts numbered from 0
PaddingAccountsFromZero(accounts, k, paddingStartIndex) ==
    LET paddingAccountCounts == BatchCounts(accounts, k) * OpsPerBatch(k) - Len(accounts)
        padding == [i \in 1..paddingAccountCounts |->
                      [AccountIndex |-> i - 1,
                       AccountId    |-> 0,
                       Assets       |-> [p \in 1..k |-> [Index |-> p - 1, Equity |-> 0,
                                                         Debt |-> 0]]]]
    IN  <<paddingStartIndex + paddingAccountCounts, accounts \o padding>>

\* part_003 913-939
PaddingAccounts(accounts, k, paddingStartIndex) ==
    LET paddingAccountCounts == BatchCounts(accounts, k) * OpsPerBatch(k) - Len(accounts)
        padding == [i \in 1..paddingAccountCounts |->
                      [AccountIndex |-> paddingStartIndex + i - 1,
                       AccountId    |-> 0,
                       Assets       |-> [p \in 1..k |-> [Index |-> p - 1, Equity |-> 0,
                                                         Debt |-> 0]]]]
    IN  <<paddingStartIndex + paddingAccountCounts, accounts \o padding>>

\* part_004 622-632 Witness.PaddingAccounts: the tiers in key order, the padding
\* indexes running on from totalOpsNumber
PaddedOps(data) ==
    LET r1 == PaddingAccounts(data[1], 1, Len(data[1]) + Len(data[2]))
        r2 == PaddingAccounts(data[2], 2, r1[1])
    IN  (1 :> r1[2]) @@ (2 :> r2[2])

\* part_004 604-619 GetBatchNumber: batchNumberMappingValues
BatchNumberMappingValues(o) ==
    <<BatchCounts(o[1], 1), BatchCounts(o[1], 1) + BatchCounts(o[2], 2)>>

GetBatchNumber(o) == BatchNumberMappingValues(o)[2]

\* part_004 466-474, 482-489: the Poseidon hash over every CEX asset's bytes
HashCexAssets(assets) == <<"cex", assets>>

\* part_004 493-496 poseidon.PoseidonBytes of the four values
PoseidonBytes(a, b, c, d) == <<"batch", a, b, c, d>>

\* part_003 852-858
AccountInfoToHash(account) == <<"leaf", account.AccountId, account.Assets>>

\* accountTree.Set: the root stands for the leaves that are set
TreeSet(root, index, hash) == {l \in root : l[1] # index} \cup {<<index, hash>>}

\* src/utils/constants.go 110-112: the hash of a leaf that was never set
NilAccountHash == <<"nil">>

\* the leaf of position index in the tree of this root
TreeGet(root, index) ==
    IF \E l \in root : l[1] = index THEN (CHOOSE l \in root : l[1] = index)[2]
    ELSE NilAccountHash

\* accountTree.GetProof: the siblings on the path of the position stand for
\* every other leaf of the tree
TreeGetProof(root, index) == {l \in root : l[1] # index}

\* batch_create_user_circuit.go 177 verifyMerkleProof: the root
\* computed from the leaf and the siblings is the given root
VerifyAccountProof(root, index, proof, leaf) ==
    root = (IF leaf = NilAccountHash THEN proof ELSE proof \cup {<<index, leaf>>})

\* part_004 580-587: the account's assets added to the CEX totals
RECURSIVE AddAssets(_, _)
AddAssets(cex, assets) ==
    IF assets = <<>> THEN cex
    ELSE LET a == Head(assets)
         IN  AddAssets([cex EXCEPT ![a.Index] =
                           [TotalEquity |-> @.TotalEquity + a.Equity,
                            TotalDebt   |-> @.TotalDebt + a.Debt]],
                       Tail(assets))

\* part_003 805-843: the stored witness with every operation's assets spread
\* over all AssetCounts indexes
DecodeBatchWitness(data) ==
    [data EXCEPT !.CreateUserOps =
        [i \in 1..Len(data.CreateUserOps) |->
            [data.CreateUserOps[i] EXCEPT !.Assets =
                LET stored == data.CreateUserOps[i].Assets
                IN  [p \in 1..AssetCounts |->
                        IF \E q \in 1..Len(stored) : stored[q].Index = p - 1
                        THEN stored[CHOOSE q \in 1..Len(stored) :
                                      /\ stored[q].Index = p - 1
                                      /\ \A r \in (q + 1)..Len(stored) : stored[r].Index # p - 1]
                        ELSE [Index |-> p - 1, Equity |-> 0, Debt |-> 0]]]]]

RECURSIVE ReplayOps(_, _)
ReplayOps(cex, createUserOps) ==
    IF createUserOps = <<>> THEN cex
    ELSE ReplayOps(AddAssets(cex, Head(createUserOps).Assets), Tail(createUserOps))

\* part_003 863-888: BeforeCexAssets with the deltas of the operations added
RecoverWithoutReplay(w) == w.BeforeCexAssets
RecoverAfterCexAssets(w) == ReplayOps(w.BeforeCexAssets, w.CreateUserOps)

\* the tier position and the accounts of batch i
TierOfBatch(o, i) == IF i < BatchNumberMappingValues(o)[1] THEN 1 ELSE 2
StartBatchNum(o, p) == IF p = 1 THEN 0 ELSE BatchNumberMappingValues(o)[p - 1]
BatchAccounts(o, i) ==
    LET p == TierOfBatch(o, i)
        k == AssetCountsTiers[p]
        rel == i - StartBatchNum(o, p)
    IN  SubSeq(o[k], rel * OpsPerBatch(k) + 1, (rel + 1) * OpsPerBatch(k))

\* part_004 573-601 on a whole batch: the totals and the root after the accounts
RECURSIVE CexAfterAccounts(_, _)
CexAfterAccounts(cex, accounts) ==
    IF accounts = <<>> THEN cex
    ELSE CexAfterAccounts(AddAssets(cex, Head(accounts).Assets), Tail(accounts))

RECURSIVE RootAfterAccounts(_, _)
RootAfterAccounts(root, accounts) ==
    IF accounts = <<>> THEN root
    ELSE RootAfterAccounts(TreeSet(root, Head(accounts).AccountIndex,
                                   AccountInfoToHash(Head(accounts))),
                           Tail(accounts))

\* part_004 573-601: the operation recorded for an account applied to the tree
\* of root beforeRoot
CreateUserOp(account, beforeRoot, accountHash) ==
    [BeforeAccountTreeRoot |-> beforeRoot,
     AccountProof          |-> TreeGetProof(beforeRoot, account.AccountIndex),
     AfterAccountTreeRoot  |-> TreeSet(beforeRoot, account.AccountIndex, accountHash),
     AccountIndex          |-> account.AccountIndex,
     AccountIdHash         |-> account.AccountId,
     Assets                |-> account.Assets]

\* part_004 454-513 run from an empty tree without interruption: the state
\* before batch i and the row of batch i
RECURSIVE UninterruptedCex(_, _)
UninterruptedCex(o, i) ==
    IF i = 0 THEN ParseCexAssetInfoFromFile
    ELSE CexAfterAccounts(UninterruptedCex(o, i - 1), BatchAccounts(o, i - 1))

RECURSIVE UninterruptedRoot(_, _)
UninterruptedRoot(o, i) ==
    IF i = 0 THEN {}
    ELSE RootAfterAccounts(UninterruptedRoot(o, i - 1), BatchAccounts(o, i - 1))

UninterruptedRow(o, i) ==
    [Height |-> i,
     Status |-> StatusPublished,
     WitnessData |->
        [BeforeAccountTreeRoot     |-> UninterruptedRoot(o, i),
         AfterAccountTreeRoot      |-> UninterruptedRoot(o, i + 1),
         BeforeCexAssets           |-> UninterruptedCex(o, i),
         BeforeCEXAssetsCommitment |-> HashCexAssets(UninterruptedCex(o, i)),
         AfterCEXAssetsCommitment  |-> HashCexAssets(UninterruptedCex(o, i + 1)),
         BatchCommitment |-> PoseidonBytes(UninterruptedRoot(o, i),
                                           UninterruptedRoot(o, i + 1),
                                           HashCexAssets(UninterruptedCex(o, i)),
                                           HashCexAssets(UninterruptedCex(o, i + 1))),
         CreateUserOps |-> [j \in 1..Len(BatchAccounts(o, i)) |->
                              CreateUserOp(BatchAccounts(o, i)[j],
                                           RootAfterAccounts(UninterruptedRoot(o, i),
                                               SubSeq(BatchAccounts(o, i), 1, j - 1)),
                                           AccountInfoToHash(BatchAccounts(o, i)[j]))]]]

NoHash == <<>>

HasherWorkers == 0..(HashWorkers - 1)

\* the hasher worker has left its loop (or was never started)
HasherDone == [j |-> Nil, i |-> Nil]

\* part_004 405-410: one channel of capacity 1 for every slot of a batch
EmptyHashChans ==
    [k \in DOMAIN BatchCreateUserOpsCountsTiers |->
        [slot \in 0..(OpsPerBatch(k) - 1) |-> NoHash]]

\* part_004 426: averageCount
AverageCount(k) == OpsPerBatch(k) \div HashWorkers + 1

\* the first account of the worker without the offset of the batch
LowAccountIndexOfFirstBatch(index, k, start, j) == index * AverageCount(k)

\* part_004 440-444: the accounts [low, high) of batch j that worker index hashes
LowAccountIndex(index, k, start, j) == index * AverageCount(k) + (j - start) * OpsPerBatch(k)
HighAccountIndex(index, k, start, j) ==
    IF AverageCount(k) + LowAccountIndex(index, k, start, j) > (j - start + 1) * OpsPerBatch(k)
    THEN (j - start + 1) * OpsPerBatch(k)
    ELSE AverageCount(k) + LowAccountIndex(index, k, start, j)

\* part_004 429-439: the worker's loop over the batches of the tier, skipping
\* the recovered ones and leaving when it has no slot of the batch
HasherFirstPos(index, k, start, end, recovered) ==
    LET j == IF recovered + 1 > start THEN recovered + 1 ELSE start
    IN  IF j >= end \/ index * AverageCount(k) >= OpsPerBatch(k) THEN HasherDone
        ELSE [j |-> j, i |-> LowAccountIndex(index, k, start, j)]

\* a worker that leaves after the first batch it hashed
HasherLeavesAfterBatch(pos, index, k, start, end) ==
    IF pos.i + 1 < HighAccountIndex(index, k, start, pos.j) THEN [pos EXCEPT !.i = pos.i + 1]
    ELSE HasherDone

HasherNextPos(pos, index, k, start, end) ==
    IF pos.i + 1 < HighAccountIndex(index, k, start, pos.j) THEN [pos EXCEPT !.i = pos.i + 1]
    ELSE IF pos.j + 1 < end
         THEN [j |-> pos.j + 1, i |-> LowAccountIndex(index, k, start, pos.j + 1)]
         ELSE HasherDone

\* part_004 428-451: the hasher workers started for tier position p
StartHashers(o, p, start, recovered) ==
    [index \in HasherWorkers |->
        IF p > Len(AssetCountsTiers) THEN HasherDone
        ELSE HasherFirstPos(index, AssetCountsTiers[p], start,
                            BatchNumberMappingValues(o)[p], recovered)]

NoWitness == [Height |-> Nil]

Range(s) == {s[n] : n \in 1..Len(s)}

\* the witness builder is not running and has never run: empty witness table,
\* empty account tree at version 0
BuilderStopped ==
    /\ bpc = "down"
    /\ builderPanic = ""
    /\ runs = 0
    /\ witnessTable = <<>>
    /\ treeVersions = (0 :> {})
    /\ treeLatest = 0
    /\ ops = <<>>
    /\ cexAssets = ParseCexAssetInfoFromFile
    /\ treeRoot = {}
    /\ ch = <<>>
    /\ chClosed = FALSE
    /\ quit = FALSE
    /\ currentBatchNumber = 0
    /\ recoveredBatchNum = Nil
    /\ startBatchNum = 0
    /\ tierPos = 1
    /\ batchIdx = 0
    /\ opIdx = 0
    /\ wit = NoWitness
    /\ wpc = "idle"
    /\ wData = NoWitness
    /\ hashPos = [index \in HasherWorkers |-> HasherDone]
    /\ accountHashChan = EmptyHashChans

BuilderIdle ==
    /\ userData = ParseUserDataSet(0, 0)
    /\ BuilderStopped

\* src/witness/main.go 35-55: any user data set, nothing run yet
BuilderInit ==
    /\ userData \in UserDataSets
    /\ BuilderStopped

\* the memory of a process that is gone; the tree object of the next process
\* is loaded from the tree store (src/witness/main.go 40)
ProcessMemoryLost ==
    /\ ops' = <<>>
    /\ cexAssets' = ParseCexAssetInfoFromFile
    /\ treeRoot' = treeVersions[treeLatest]
    /\ ch' = <<>>
    /\ chClosed' = FALSE
    /\ quit' = FALSE
    /\ currentBatchNumber' = 0
    /\ recoveredBatchNum' = Nil
    /\ startBatchNum' = 0
    /\ tierPos' = 1
    /\ batchIdx' = 0
    /\ opIdx' = 0
    /\ wit' = NoWitness
    /\ wpc' = "idle"
    /\ wData' = NoWitness
    /\ hashPos' = [index \in HasherWorkers |-> HasherDone]
    /\ accountHashChan' = EmptyHashChans

\* a panic in any goroutine ends the process
BuilderPanics(msg) ==
    /\ bpc' = "panicked"
    /\ builderPanic' = msg

\* part_004 90-100: the row of the greatest height
GetLatestBatchWitness ==
    CHOOSE r \in Range(witnessTable) : \A s \in Range(witnessTable) : s.Height <= r.Height

\* part_004 537-545
GetCexAssets(row) == RecoverAfterCexAssets(DecodeBatchWitness(row.WitnessData))

\* part_003 877-887: the sanity check of RecoverAfterCexAssets
RecoveredCexIsSane(row) ==
    HashCexAssets(GetCexAssets(row)) = row.WitnessData.AfterCEXAssetsCommitment

\* no rollback: the tree stays at the latest version of the store
RollbackToLatest(height) == treeLatest

\* part_004 380: rollbackVersion := bsmt.Version(height + 1)
RollbackVersion(height) == height + 1

\* part_004 348-401: Run from its start to the first batch: the latest height is
\* read, the CEX totals are recovered from its row, the tree is rolled back to
\* the version of that height, the accounts are padded, the writer and the
\* hasher workers of the first tier are started
RunRecover ==
    /\ bpc \in {"down", "finished"}
    /\ runs < MaxRuns
    /\ runs' = runs + 1
    /\ LET found == witnessTable # <<>>
           height == IF found THEN GetLatestBatchWitness.Height ELSE -1
           storeRoot == treeVersions[treeLatest]
           outcome ==
               IF found /\ ~RecoveredCexIsSane(GetLatestBatchWitness)
                   THEN "after cex commitment verify failed"
               ELSE IF height = GetBatchNumber(userData) - 1
                   THEN "already generate all accounts witness"
               ELSE IF treeLatest > height + 1 /\ (height + 1) \notin DOMAIN treeVersions
                   THEN "rollback failed"
               ELSE IF treeLatest < height + 1
                   THEN "account tree version is less than current height"
               ELSE "recovered"
       IN  /\ cexAssets' = IF found /\ outcome # "after cex commitment verify failed"
                           THEN GetCexAssets(GetLatestBatchWitness)
                           ELSE ParseCexAssetInfoFromFile
           /\ IF outcome = "recovered"
              THEN /\ treeLatest' = RollbackVersion(height)
                   /\ treeVersions' =
                          [v \in {u \in DOMAIN treeVersions : u <= RollbackVersion(height)} |->
                              treeVersions[v]]
                   /\ treeRoot' = treeVersions[RollbackVersion(height)]
                   /\ currentBatchNumber' = height
                   /\ recoveredBatchNum' = height
                   /\ ops' = PaddedOps(userData)
                   /\ wpc' = "recv"
                   /\ hashPos' = StartHashers(PaddedOps(userData), 1, 0, height)
                   /\ bpc' = "loop"
                   /\ builderPanic' = ""
              ELSE /\ treeRoot' = storeRoot
                   /\ currentBatchNumber' = 0
                   /\ recoveredBatchNum' = Nil
                   /\ ops' = userData
                   /\ wpc' = "idle"
                   /\ hashPos' = [index \in HasherWorkers |-> HasherDone]
                   /\ UNCHANGED <<treeLatest, treeVersions>>
                   /\ IF outcome = "already generate all accounts witness"
                      THEN bpc' = "finished" /\ builderPanic' = ""
                      ELSE BuilderPanics(outcome)
    /\ ch' = <<>>
    /\ chClosed' = FALSE
    /\ quit' = FALSE
    /\ startBatchNum' = 0
    /\ tierPos' = 1
    /\ batchIdx' = 0
    /\ opIdx' = 0
    /\ wit' = NoWitness
    /\ wData' = NoWitness
    /\ accountHashChan' = EmptyHashChans
    /\ UNCHANGED <<userData, witnessTable>>
    /\ UNCHANGED notBuilderVars

EndBatchNum == BatchNumberMappingValues(ops)[tierPos]

\* part_004 420-451, 454-476, 525-531: the heads of the loop over the tiers and
\* of the loop over the batches of a tier; a batch that is not skipped starts
\* with the root and the CEX totals before it.  At the end of a tier the hasher
\* workers are waited for (wg.Wait) and those of the next tier are started.
BatchLoop ==
    /\ bpc = "loop"
    /\ IF tierPos > Len(AssetCountsTiers)
       THEN /\ bpc' = "close"
            /\ UNCHANGED <<tierPos, startBatchNum, batchIdx, opIdx, wit, hashPos>>
       ELSE IF batchIdx >= EndBatchNum
       THEN /\ \A index \in HasherWorkers : hashPos[index] = HasherDone
            /\ tierPos' = tierPos + 1
            /\ startBatchNum' = EndBatchNum
            /\ batchIdx' = EndBatchNum
            /\ hashPos' = StartHashers(ops, tierPos + 1, EndBatchNum, recoveredBatchNum)
            /\ UNCHANGED <<bpc, opIdx, wit>>
       ELSE IF batchIdx <= recoveredBatchNum
       THEN /\ batchIdx' = batchIdx + 1
            /\ UNCHANGED <<bpc, tierPos, startBatchNum, opIdx, wit, hashPos>>
       ELSE /\ wit' = [BeforeAccountTreeRoot     |-> treeRoot,
                       BeforeCexAssets           |-> cexAssets,
                       BeforeCEXAssetsCommitment |-> HashCexAssets(cexAssets),
                       CreateUserOps             |-> <<>>]
            /\ opIdx' = (batchIdx - startBatchNum) * OpsPerBatch(AssetCountsTiers[tierPos])
            /\ bpc' = "exec"
            /\ UNCHANGED <<tierPos, startBatchNum, batchIdx, hashPos>>
    /\ UNCHANGED <<userData, witnessTable, treeVersions, treeLatest, builderPanic, runs, ops,
                   cexAssets, treeRoot, ch, chClosed, quit, currentBatchNumber,
                   recoveredBatchNum, wpc, wData, accountHashChan>>
    /\ UNCHANGED notBuilderVars

LastOpOfBatch ==
    (batchIdx - startBatchNum + 1) * OpsPerBatch(AssetCountsTiers[tierPos])

\* part_004 531-533: <-w.quit, then Run returns
WaitQuit ==
    /\ bpc = "waitQuit"
    /\ quit
    /\ bpc' = "finished"
    /\ UNCHANGED <<userData, witnessTable, treeVersions, treeLatest, builderPanic, runs, ops,
                   cexAssets, treeRoot, ch, chClosed, quit, currentBatchNumber,
                   recoveredBatchNum, startBatchNum, tierPos, batchIdx, opIdx, wit, wpc,
                   wData>>
    /\ UNCHANGED <<hashPos, accountHashChan>>
    /\ UNCHANGED notBuilderVars

BuilderRunning == bpc \in {"loop", "exec", "send", "close", "waitQuit"}

\* part_004 565-570, 438-446: a hasher worker sends the hash of its next account
\* to the channel of the account's slot, blocking while the slot is taken
ComputeAccountHash(index) ==
    /\ BuilderRunning
    /\ hashPos[index] # HasherDone
    /\ LET k == AssetCountsTiers[tierPos]
           pos == hashPos[index]
           slot == pos.i - (pos.j - startBatchNum) * OpsPerBatch(k)
       IN  /\ accountHashChan[k][slot] = NoHash
           /\ accountHashChan' = [accountHashChan EXCEPT ![k][slot] =
                                      AccountInfoToHash(ops[k][pos.i + 1])]
           /\ hashPos' = [hashPos EXCEPT ![index] =
                              HasherNextPos(pos, index, k, startBatchNum, EndBatchNum)]
    /\ UNCHANGED <<userData, witnessTable, treeVersions, treeLatest, bpc, builderPanic, runs,
                   ops, cexAssets, treeRoot, ch, chClosed, quit, currentBatchNumber,
                   recoveredBatchNum, startBatchNum, tierPos, batchIdx, opIdx, wit, wpc,
                   wData>>
    /\ UNCHANGED notBuilderVars

\* part_004 478-481, 573-601: one account of the batch: its assets are added
\* to the CEX totals and its leaf is set in the tree to the hash taken from the
\* channel of its slot
ExecuteBatchCreateUser ==
    /\ bpc = "exec"
    /\ opIdx < LastOpOfBatch
    /\ LET k == AssetCountsTiers[tierPos]
           account == ops[k][opIdx + 1]
           index == opIdx - (batchIdx - startBatchNum) * OpsPerBatch(k)
           accountHash == accountHashChan[k][index]
       IN  /\ accountHash # NoHash
           /\ accountHashChan' = [accountHashChan EXCEPT ![k][index] = NoHash]
           /\ cexAssets' = AddAssets(cexAssets, account.Assets)
           /\ treeRoot' = TreeSet(treeRoot, account.AccountIndex, accountHash)
           /\ wit' = [wit EXCEPT !.CreateUserOps =
                         Append(@, CreateUserOp(account, treeRoot, accountHash))]
    /\ opIdx' = opIdx + 1
    /\ UNCHANGED <<userData, witnessTable, treeVersions, treeLatest, bpc, builderPanic, runs,
                   ops, ch, chClosed, quit, currentBatchNumber, recoveredBatchNum,
                   startBatchNum, tierPos, batchIdx, wpc, wData, hashPos>>
    /\ UNCHANGED notBuilderVars

\* a Commit that stores the working root as the latest version without a new
\* version number
TreeCommitSameVersion(accPrunedVersion) ==
    /\ treeLatest' = treeLatest
    /\ treeVersions' = [treeVersions EXCEPT ![treeLatest] = treeRoot]

\* accountTree.Commit(&accPrunedVersion): the working root becomes the next
\* version in the tree store and the versions below accPrunedVersion are pruned
TreeCommit(accPrunedVersion) ==
    /\ treeLatest' = treeLatest + 1
    /\ treeVersions' = [v \in {u \in DOMAIN treeVersions \cup {treeLatest + 1} :
                                 u >= accPrunedVersion \/ u = treeLatest + 1} |->
                           IF v = treeLatest + 1 THEN treeRoot ELSE treeVersions[v]]

\* a prune version taken from the batch being committed
AccPrunedVersionOfBatch == batchIdx + 1

\* part_004 516: accPrunedVersion := bsmt.Version(atomic.LoadInt64(&w.currentBatchNumber) + 1)
AccPrunedVersion == currentBatchNumber + 1

\* part_004 482-521: the fields after the batch, the batch commitment, the
\* encoded row, and the commit of the tree
CommitBatch ==
    /\ bpc = "exec"
    /\ opIdx = LastOpOfBatch
    /\ wit' = [Height |-> batchIdx,
               Status |-> StatusPublished,
               WitnessData |->
                  [BeforeAccountTreeRoot     |-> wit.BeforeAccountTreeRoot,
                   AfterAccountTreeRoot      |-> treeRoot,
                   BeforeCexAssets           |-> wit.BeforeCexAssets,
                   BeforeCEXAssetsCommitment |-> wit.BeforeCEXAssetsCommitment,
                   AfterCEXAssetsCommitment  |-> HashCexAssets(cexAssets),
                   BatchCommitment |-> PoseidonBytes(wit.BeforeAccountTreeRoot, treeRoot,
                                                     wit.BeforeCEXAssetsCommitment,
                                                     HashCexAssets(cexAssets)),
                   CreateUserOps |-> wit.CreateUserOps]]
    /\ TreeCommit(AccPrunedVersion)
    /\ bpc' = "send"
    /\ UNCHANGED <<userData, witnessTable, builderPanic, runs, ops, cexAssets, treeRoot, ch,
                   chClosed, quit, currentBatchNumber, recoveredBatchNum, startBatchNum,
                   tierPos, batchIdx, opIdx, wpc, wData>>
    /\ UNCHANGED <<hashPos, accountHashChan>>
    /\ UNCHANGED notBuilderVars

\* part_004 523: w.ch <- witness, blocking while the channel is full
SendWitness ==
    /\ bpc = "send"
    /\ Len(ch) < ChanCap
    /\ ch' = Append(ch, wit)
    /\ batchIdx' = batchIdx + 1
    /\ wit' = NoWitness
    /\ bpc' = "loop"
    /\ UNCHANGED <<userData, witnessTable, treeVersions, treeLatest, builderPanic, runs, ops,
                   cexAssets, treeRoot, chClosed, quit, currentBatchNumber,
                   recoveredBatchNum, startBatchNum, tierPos, opIdx, wpc, wData>>
    /\ UNCHANGED <<hashPos, accountHashChan>>
    /\ UNCHANGED notBuilderVars

\* part_004 530: close(w.ch)
CloseChannel ==
    /\ bpc = "close"
    /\ chClosed' = TRUE
    /\ bpc' = "waitQuit"
    /\ UNCHANGED <<userData, witnessTable, treeVersions, treeLatest, builderPanic, runs, ops,
                   cexAssets, treeRoot, ch, quit, currentBatchNumber, recoveredBatchNum,
                   startBatchNum, tierPos, batchIdx, opIdx, wit, wpc, wData>>
    /\ UNCHANGED <<hashPos, accountHashChan>>
    /\ UNCHANGED notBuilderVars

\* a receive that takes the newest element of the channel
ChanReceiveNewest(c) == [value |-> c[Len(c)], rest |-> SubSeq(c, 1, Len(c) - 1)]

\* part_004 550: `range w.ch` receives the elements of the channel in the
\* order they were sent
ChanReceive(c) == [value |-> Head(c), rest |-> Tail(c)]

\* part_004 550, 561: the writer takes the oldest witness of the channel, or
\* leaves its loop when the channel is closed and drained
WriterReceive ==
    /\ BuilderRunning
    /\ wpc = "recv"
    /\ IF ch # <<>>
       THEN /\ wData' = ChanReceive(ch).value
            /\ ch' = ChanReceive(ch).rest
            /\ wpc' = "create"
            /\ UNCHANGED quit
       ELSE /\ chClosed
            /\ quit' = TRUE
            /\ wpc' = "exited"
            /\ UNCHANGED <<wData, ch>>
    /\ UNCHANGED <<userData, witnessTable, treeVersions, treeLatest, bpc, builderPanic, runs,
                   ops, cexAssets, treeRoot, chClosed, currentBatchNumber, recoveredBatchNum,
                   startBatchNum, tierPos, batchIdx, opIdx, wit>>
    /\ UNCHANGED <<hashPos, accountHashChan>>
    /\ UNCHANGED notBuilderVars

\* part_004 49, 203-216, 551-555: the insert of the row; a height that is in
\* the table already fails on the unique index and the writer panics
CreateBatchWitness ==
    /\ BuilderRunning
    /\ wpc = "create"
    /\ IF \E row \in Range(witnessTable) : row.Height = wData.Height
       THEN /\ BuilderPanics("create batch witness failed")
            /\ UNCHANGED <<witnessTable, wpc>>
       ELSE /\ witnessTable' = Append(witnessTable, wData)
            /\ wpc' = "store"
            /\ UNCHANGED <<bpc, builderPanic>>
    /\ UNCHANGED <<userData, treeVersions, treeLatest, runs, ops, cexAssets, treeRoot, ch,
                   chClosed, quit, currentBatchNumber, recoveredBatchNum, startBatchNum,
                   tierPos, batchIdx, opIdx, wit, wData>>
    /\ UNCHANGED <<hashPos, accountHashChan>>
    /\ UNCHANGED notBuilderVars

\* part_004 556: atomic.StoreInt64(&w.currentBatchNumber, witness.Height)
StoreCurrentBatchNumber ==
    /\ BuilderRunning
    /\ wpc = "store"
    /\ currentBatchNumber' = wData.Height
    /\ wData' = NoWitness
    /\ wpc' = "recv"
    /\ UNCHANGED <<userData, witnessTable, treeVersions, treeLatest, bpc, builderPanic, runs,
                   ops, cexAssets, treeRoot, ch, chClosed, quit, recoveredBatchNum,
                   startBatchNum, tierPos, batchIdx, opIdx, wit>>
    /\ UNCHANGED <<hashPos, accountHashChan>>
    /\ UNCHANGED notBuilderVars

\* the builder process is killed at any point of Run
BuilderCrash ==
    /\ BuilderRunning
    /\ runs < MaxRuns
    /\ bpc' = "down"
    /\ ProcessMemoryLost
    /\ UNCHANGED <<userData, witnessTable, treeVersions, treeLatest, builderPanic, runs>>
    /\ UNCHANGED notBuilderVars

\* src/utils/account_tree.go 28-30: with the "memory" driver the tree store is
\* part of the process: the next process starts from an empty tree at version 0
TreeStoreLost ==
    /\ bpc \in {"down", "finished"}
    /\ runs < MaxRuns
    /\ treeLatest > 0
    /\ treeVersions' = (0 :> {})
    /\ treeLatest' = 0
    /\ treeRoot' = {}
    /\ UNCHANGED <<userData, witnessTable, runs, bpc, builderPanic, ops, cexAssets, ch,
                   chClosed, quit, currentBatchNumber, recoveredBatchNum, startBatchNum,
                   tierPos, batchIdx, opIdx, wit, wpc, wData, hashPos, accountHashChan>>
    /\ UNCHANGED notBuilderVars

BuilderNext ==
    \/ RunRecover
    \/ BatchLoop
    \/ ExecuteBatchCreateUser
    \/ CommitBatch
    \/ SendWitness
    \/ CloseChannel
    \/ WaitQuit
    \/ \E index \in HasherWorkers : ComputeAccountHash(index)
    \/ WriterReceive
    \/ CreateBatchWitness
    \/ StoreCurrentBatchNumber
    \/ BuilderCrash


(***************************************************************************)
(* Tiered collateral valuation (part_003 429-515, 742-786)                 *)
(***************************************************************************)

\* number of entries of a padded tier list (12 in the code, an even number)
TierCount == 4
\* boundary of the padding entries of a tier list
MaxTierBoundaryValue == 8
PercentageMultiplier == 100

TierRatio(boundaryValue, ratio, precomputedValue) ==
    [BoundaryValue |-> boundaryValue, Ratio |-> ratio, PrecomputedValue |-> precomputedValue]

\* part_003 503-515: the cumulative value at the boundary of every tier
RECURSIVE CalculatePrecomputedValue(_)
CalculatePrecomputedValue(tiersRatio) ==
    IF tiersRatio = <<>> THEN <<>>
    ELSE LET n == Len(tiersRatio)
             front == CalculatePrecomputedValue(SubSeq(tiersRatio, 1, n - 1))
             diffValue == IF n = 1 THEN tiersRatio[n].BoundaryValue - 0
                          ELSE tiersRatio[n].BoundaryValue - tiersRatio[n - 1].BoundaryValue
             precomputedValue == (IF n = 1 THEN 0 ELSE front[n - 1].PrecomputedValue)
                                 + (diffValue * tiersRatio[n].Ratio) \div PercentageMultiplier
         IN  Append(front, [tiersRatio[n] EXCEPT !.PrecomputedValue = precomputedValue])

\* a padding that does not carry the last precomputed value on
PaddingTierRatiosFromZero(tiersRatio) ==
    [i \in 1..TierCount |->
        IF i <= Len(tiersRatio) THEN tiersRatio[i]
        ELSE TierRatio(MaxTierBoundaryValue, 0, 0)]

\* part_003 429-450: the list is filled up to TierCount entries of ratio 0 that
\* carry the last precomputed value
PaddingTierRatios(tiersRatio) ==
    [i \in 1..TierCount |->
        IF i <= Len(tiersRatio) THEN tiersRatio[i]
        ELSE TierRatio(MaxTierBoundaryValue, 0,
                       IF Len(tiersRatio) > 0
                       THEN tiersRatio[Len(tiersRatio)].PrecomputedValue ELSE 0)]

\* part_003 452-501: the tiers of a parsed tier string
ParseTiersRatio(tiers) ==
    PaddingTierRatios(CalculatePrecomputedValue(
        [i \in 1..Len(tiers) |-> TierRatio(tiers[i][1], tiers[i][2], 0)]))

\* part_003 771-785: the loop over the tiers, i counted from 1
RECURSIVE TiersRatioLoop(_, _, _)
TiersRatioLoop(collateralValue, tiersRatio, i) ==
    IF i > Len(tiersRatio) THEN tiersRatio[Len(tiersRatio)].PrecomputedValue
    ELSE IF collateralValue <= tiersRatio[i].BoundaryValue
    THEN LET rest == IF i # 1 THEN collateralValue - tiersRatio[i - 1].BoundaryValue
                     ELSE collateralValue
             res == (rest * tiersRatio[i].Ratio) \div PercentageMultiplier
         IN  IF i # 1 THEN res + tiersRatio[i - 1].PrecomputedValue ELSE res
    ELSE TiersRatioLoop(collateralValue, tiersRatio, i + 1)

\* part_003 765-786
CalculateAssetValueViaTiersRatio(collateralValue, tiersRatio) ==
    IF Len(tiersRatio) = 0 THEN 0 ELSE TiersRatioLoop(collateralValue, tiersRatio, 1)

\* part_003 742-756
CalculateAssetValueForCollateral(loan, margin, portfolioMargin, cexAssetInfo) ==
    CalculateAssetValueViaTiersRatio(loan * cexAssetInfo.BasePrice, cexAssetInfo.LoanRatios)
    + CalculateAssetValueViaTiersRatio(margin * cexAssetInfo.BasePrice,
                                       cexAssetInfo.MarginRatios)
    + CalculateAssetValueViaTiersRatio(portfolioMargin * cexAssetInfo.BasePrice,
                                       cexAssetInfo.PortfolioMarginRatios)

(***************************************************************************)
(* ReadUserDataFromCsvFile (part_003 590-731)                              *)
(***************************************************************************)

\* largest number of rows of a user file
MaxCsvRows == 2
\* width of the amounts (uint64 in the code)
Uint64Bits == 3
\* length in bytes of an account id (32 in the code)
AccountIdLen == 1

MaxUint64 == 2^Uint64Bits - 1

\* A decimal string of a file is <<n>> for the text of n halves of the
\* smallest unit of the amount, and <<>> for a text that is no decimal.
NotDecimal == <<>>

ConvertError == [err |-> TRUE, num |-> 0]

\* part_003 788-803: the decimal is scaled by the multiplier, truncated to an
\* integer and has to fit uint64
ConvertFloatStrToUint64(f) ==
    IF f = NotDecimal THEN ConvertError
    ELSE LET numBigInt == IF f[1] >= 0 THEN f[1] \div 2 ELSE 0 - ((0 - f[1]) \div 2)
         IN  IF numBigInt < 0 \/ numBigInt > MaxUint64 THEN ConvertError
             ELSE [err |-> FALSE, num |-> numBigInt]

\* the sum in uint64 without the check
SafeAddWrapping(a, b) == [panic |-> FALSE, c |-> (a + b) % (2^Uint64Bits)]

\* part_003 397-403: the sum in uint64, overflow panics
SafeAdd(a, b) ==
    LET c == (a + b) % (2^Uint64Bits)
    IN  [panic |-> c < a, c |-> c]

HexDigits == ("0" :> 0) @@ ("a" :> 10)

\* hex.DecodeString: the bytes of a string of hex digits of even length
HexDecodeString(str) ==
    IF Len(str) % 2 # 0 \/ \E i \in 1..Len(str) : str[i] \notin DOMAIN HexDigits
    THEN [err |-> TRUE, bytes |-> <<>>]
    ELSE [err |-> FALSE,
          bytes |-> [i \in 1..(Len(str) \div 2) |->
                        16 * HexDigits[str[2 * i - 1]] + HexDigits[str[2 * i]]]]

\* the account ids of the rows: a well-formed one, one that is not hex and one
\* that is too short
AccountIdStrings ==
    {[i \in 1..(2 * AccountIdLen) |-> "a"],
     [i \in 1..(2 * AccountIdLen) |-> "z"],
     [i \in 1..(2 * AccountIdLen - 2) |-> "a"]}

\* the six columns of an asset in a row, the asset's name left out
CsvCells ==
    [Equity          : {NotDecimal, <<0>>, <<4>>},
     Debt            : {<<0>>, <<5>>, <<2 * MaxUint64 + 2>>},
     Loan            : {<<0>>, <<4>>, <<0 - 2>>},
     Margin          : {<<0>>, <<2>>, <<2 * MaxUint64>>},
     PortfolioMargin : {<<0>>}]

\* the price and the tier lists of the assets of cex_assets_info.csv
CsvCexAssetsInfos ==
    {[a \in AssetIndexes |->
        [BasePrice             |-> a + 1,
         LoanRatios            |-> ParseTiersRatio(tiers),
         MarginRatios          |-> ParseTiersRatio(tiers),
         PortfolioMarginRatios |-> ParseTiersRatio(tiers)]] :
     tiers \in {<<<<4, 50>>>>, <<<<2, 100>>, <<6, 50>>>>}}

NoAccount ==
    [AccountIndex |-> 0, AccountId |-> <<>>, TotalEquity |-> 0, TotalDebt |-> 0,
     TotalCollateral |-> 0, Assets |-> <<>>]

CsvIdle ==
    /\ csvCexAssetsInfo = <<>>
    /\ csvPc = "idle"
    /\ csvI = 0
    /\ csvJ = 0
    /\ csvRow = <<>>
    /\ csvAccount = NoAccount
    /\ invalidAccountFlag = FALSE
    /\ csvAccounts = [k \in Range(AssetCountsTiers) |-> <<>>]
    /\ invalidCounts = 0
    /\ accountIndex = 0

\* part_003 590-608: the file is open and its rows are about to be read
CsvInit ==
    /\ csvCexAssetsInfo \in CsvCexAssetsInfos
    /\ csvPc = "row"
    /\ csvI = 0
    /\ csvJ = 0
    /\ csvRow = <<>>
    /\ csvAccount = NoAccount
    /\ invalidAccountFlag = FALSE
    /\ csvAccounts = [k \in Range(AssetCountsTiers) |-> <<>>]
    /\ invalidCounts = 0
    /\ accountIndex = 0

\* part_003 609-623: the head of the loop over the rows; an account id that is
\* not 32 bytes of hex panics
ReadAccountId ==
    /\ csvPc = "row"
    /\ csvI < MaxCsvRows
    /\ \E id \in AccountIdStrings :
          LET accountId == HexDecodeString(id)
          IN  IF accountId.err \/ Len(accountId.bytes) # AccountIdLen
              THEN /\ csvPc' = "panicked"
                   /\ UNCHANGED <<csvJ, csvRow, csvAccount, invalidAccountFlag>>
              ELSE /\ csvPc' = "asset"
                   /\ csvJ' = 0
                   /\ csvRow' = <<>>
                   /\ invalidAccountFlag' = FALSE
                   /\ csvAccount' = [NoAccount EXCEPT !.AccountIndex = accountIndex,
                                                      !.AccountId = accountId.bytes]
    /\ UNCHANGED <<csvCexAssetsInfo, csvI, csvAccounts, invalidCounts, accountIndex>>
    /\ UNCHANGED notCsvVars

\* account.TotalCollateral.Cmp(account.TotalDebt) >= 0 is never looked at
TotalCollateralUnchecked(account) == TRUE

\* part_003 703
TotalCollateralCoversDebt(account) == account.TotalCollateral >= account.TotalDebt

\* part_003 701-721: the end of a row: a row without a wrong cell whose
\* collateral covers its debt is appended to the first tier it fits, to none
\* when it fits no tier
EndOfRow(flag, account) ==
    /\ csvI' = csvI + 1
    /\ csvPc' = "row"
    /\ IF ~flag
       THEN IF TotalCollateralCoversDebt(account)
            THEN /\ accountIndex' = accountIndex + 1
                 /\ IF \E q \in 1..Len(AssetCountsTiers) :
                          Len(account.Assets) <= AssetCountsTiers[q]
                    THEN LET p == CHOOSE q \in 1..Len(AssetCountsTiers) :
                                     /\ Len(account.Assets) <= AssetCountsTiers[q]
                                     /\ \A r \in 1..(q - 1) :
                                           Len(account.Assets) > AssetCountsTiers[r]
                         IN  csvAccounts' = [csvAccounts EXCEPT ![AssetCountsTiers[p]] =
                                                Append(@, account)]
                    ELSE UNCHANGED csvAccounts
                 /\ UNCHANGED invalidCounts
            ELSE /\ invalidCounts' = invalidCounts + 1
                 /\ UNCHANGED <<accountIndex, csvAccounts>>
       ELSE UNCHANGED <<accountIndex, csvAccounts, invalidCounts>>

\* part_003 624-700: the columns of asset j of the row: a wrong amount makes
\* the row invalid and ends it, an asset with equity or debt is added to the
\* account and to its totals; the row ends after its last asset
ReadAsset ==
    /\ csvPc = "asset"
    /\ \E cell \in CsvCells :
          LET equity == ConvertFloatStrToUint64(cell.Equity)
              debt == ConvertFloatStrToUint64(cell.Debt)
              loan == ConvertFloatStrToUint64(cell.Loan)
              margin == ConvertFloatStrToUint64(cell.Margin)
              portfolioMargin == ConvertFloatStrToUint64(cell.PortfolioMargin)
              tmpAsset == [Index |-> csvJ, Equity |-> equity.num, Debt |-> debt.num,
                           Loan |-> loan.num, Margin |-> margin.num,
                           PortfolioMargin |-> portfolioMargin.num]
              sum1 == SafeAdd(loan.num, margin.num)
              assetTotalCollateral == SafeAdd(sum1.c, portfolioMargin.num)
              added == [csvAccount EXCEPT
                          !.Assets = Append(@, tmpAsset),
                          !.TotalEquity = @ + equity.num * csvCexAssetsInfo[csvJ].BasePrice,
                          !.TotalDebt = @ + debt.num * csvCexAssetsInfo[csvJ].BasePrice,
                          !.TotalCollateral = @ + CalculateAssetValueForCollateral(
                               loan.num, margin.num, portfolioMargin.num,
                               csvCexAssetsInfo[csvJ])]
          IN  /\ csvRow' = Append(csvRow, cell)
              /\ IF equity.err \/ debt.err \/ loan.err \/ margin.err \/ portfolioMargin.err
                 THEN /\ invalidCounts' = invalidCounts + 1
                      /\ invalidAccountFlag' = TRUE
                      /\ csvI' = csvI + 1
                      /\ csvPc' = "row"
                      /\ UNCHANGED <<csvJ, csvAccount, csvAccounts, accountIndex>>
                 ELSE IF equity.num # 0 \/ debt.num # 0
                 THEN IF sum1.panic \/ assetTotalCollateral.panic
                      THEN /\ csvPc' = "panicked"
                           /\ UNCHANGED <<csvI, csvJ, csvAccount, invalidAccountFlag,
                                          csvAccounts, invalidCounts, accountIndex>>
                      ELSE IF assetTotalCollateral.c > equity.num
                      THEN /\ invalidCounts' = invalidCounts + 1
                           /\ invalidAccountFlag' = TRUE
                           /\ csvAccount' = [csvAccount EXCEPT !.Assets = Append(@, tmpAsset)]
                           /\ csvI' = csvI + 1
                           /\ csvPc' = "row"
                           /\ UNCHANGED <<csvJ, csvAccounts, accountIndex>>
                      ELSE /\ csvAccount' = added
                           /\ csvJ' = csvJ + 1
                           /\ UNCHANGED invalidAccountFlag
                           /\ IF csvJ + 1 = AssetCounts
                              THEN EndOfRow(FALSE, added)
                              ELSE UNCHANGED <<csvI, csvPc, csvAccounts, invalidCounts,
                                               accountIndex>>
                 ELSE /\ csvJ' = csvJ + 1
                      /\ UNCHANGED <<csvAccount, invalidAccountFlag>>
                      /\ IF csvJ + 1 = AssetCounts
                         THEN EndOfRow(FALSE, csvAccount)
                         ELSE UNCHANGED <<csvI, csvPc, csvAccounts, invalidCounts,
                                          accountIndex>>
    /\ UNCHANGED csvCexAssetsInfo
    /\ UNCHANGED notCsvVars

\* part_003 724-730: the end of the file: the accounts and the number of
\* invalid rows are returned
ReturnAccounts ==
    /\ csvPc = "row"
    /\ csvPc' = "returned"
    /\ UNCHANGED <<csvCexAssetsInfo, csvI, csvJ, csvRow, csvAccount, invalidAccountFlag,
                   csvAccounts, invalidCounts, accountIndex>>
    /\ UNCHANGED notCsvVars

CsvNext ==
    \/ ReadAccountId
    \/ ReadAsset
    \/ ReturnAccounts


(***************************************************************************)
(* Calls of the functions of package utils                                 *)
(***************************************************************************)

NoResult == <<>>

UtilIdle ==
    /\ utilCall = <<>>
    /\ utilResult = NoResult

\* the call named fn is made and has not returned
Called(fn) ==
    /\ utilCall # <<>>
    /\ utilCall[1] = fn
    /\ utilResult = NoResult

\* the call returns res
Returns(res) ==
    /\ utilResult' = <<res>>
    /\ UNCHANGED utilCall
    /\ UNCHANGED notUtilVars

\* the call named fn has returned
Returned(fn) ==
    /\ utilCall # <<>>
    /\ utilCall[1] = fn
    /\ utilResult # NoResult

(***************************************************************************)
(* VerifyMerkleProof (src/utils/account_tree.go 58-84)                     *)
(***************************************************************************)

\* depth of the account tree (28 in the code)
AccountTreeDepth == 2
\* number of distinct leaf hashes
NumLeafValues == 2

LeafValues == 0..(NumLeafValues - 1)

\* poseidon over two nodes: an injective pairing whose values are no leaf
\* values
PoseidonPair(left, right) ==
    ((left + right) * (left + right + 1)) \div 2 + right + NumLeafValues

\* bit i of the index, counted from the most significant bit of the path
IndexBitMsbFirst(leafIndex, i) ==
    (leafIndex \div (2^(AccountTreeDepth - 1 - i))) % 2

\* account_tree.go 68: accountIndex & (1 << i), as 0 or 1
IndexBit(leafIndex, i) == (leafIndex \div (2^i)) % 2

\* account_tree.go 66-78: the fold of the node with proof[i], i counted from 0
RECURSIVE MerkleFold(_, _, _, _)
MerkleFold(node, leafIndex, proof, i) ==
    IF i = AccountTreeDepth THEN node
    ELSE MerkleFold(IF IndexBit(leafIndex, i) = 0
                    THEN PoseidonPair(node, proof[i + 1])
                    ELSE PoseidonPair(proof[i + 1], node),
                    leafIndex, proof, i + 1)

\* account_tree.go 58-84
VerifyMerkleProof(root, leafIndex, proof, node) ==
    IF Len(proof) # AccountTreeDepth THEN FALSE
    ELSE MerkleFold(node, leafIndex, proof, 0) = root

\* the trees: a leaf hash at every position
MerkleTrees == [0..(2^AccountTreeDepth - 1) -> LeafValues]

\* the node of a tree at a level (0: the leaves) and a position in the level
RECURSIVE MerkleNode(_, _, _)
MerkleNode(tree, level, pos) ==
    IF level = 0 THEN tree[pos]
    ELSE PoseidonPair(MerkleNode(tree, level - 1, 2 * pos),
                      MerkleNode(tree, level - 1, 2 * pos + 1))

MerkleRoot(tree) == MerkleNode(tree, AccountTreeDepth, 0)

\* the siblings of the path from the leaf at the index up to the root
MerkleProof(tree, leafIndex) ==
    [i \in 1..AccountTreeDepth |->
        LET pos == leafIndex \div (2^(i - 1))
        IN  MerkleNode(tree, i - 1, IF pos % 2 = 0 THEN pos + 1 ELSE pos - 1)]

\* the nodes below the root of a tree
MerkleNodes(tree) ==
    UNION {{MerkleNode(tree, level, pos) : pos \in 0..(2^(AccountTreeDepth - level) - 1)} :
              level \in 0..(AccountTreeDepth - 1)}

\* part_005 107-141: the root, the index, the proof and the leaf hash of a
\* user's configuration, the proof of any length up to one more than the depth
MerkleCalls(tree) ==
    {<<"VerifyMerkleProof", tree, leafIndex, proof, node>> :
        leafIndex \in 0..(2^AccountTreeDepth - 1),
        proof \in UNION {[1..n -> MerkleNodes(tree) \cup LeafValues] :
                            n \in 0..(AccountTreeDepth + 1)},
        node \in LeafValues}

MerkleInit ==
    /\ \E tree \in MerkleTrees : utilCall \in MerkleCalls(tree)
    /\ utilResult = NoResult

\* part_005 139: utils.VerifyMerkleProof(root, userConfig.AccountIndex, proof, accountHash)
VerifyMerkleProofCall ==
    /\ Called("VerifyMerkleProof")
    /\ Returns(VerifyMerkleProof(MerkleRoot(utilCall[2]), utilCall[3], utilCall[4],
                                 utilCall[5]))


(***************************************************************************)
(* The padded asset list of a user and its commitment                      *)
(* (part_003 152-281, circuit/batch_create_user_circuit.go 408-490,        *)
(* utils_test.go 16-48)                                                    *)
(***************************************************************************)

\* number of assets of the exchange in the calls of the padding functions
\* (AssetCounts, 500 in the code)
PaddingAssetCounts == 4
\* the smaller of the two tiers of asset counts (50 in the code)
SmallAssetsTier == 2

\* constants.go 93-108: the tiers in ascending order, the last one AssetCounts
PaddingAssetCountsTiers == <<SmallAssetsTier, PaddingAssetCounts>>

EmptyAsset(assetIndex) ==
    [Index |-> assetIndex, Equity |-> 0, Debt |-> 0, Loan |-> 0, Margin |-> 0,
     PortfolioMargin |-> 0]

\* part_003 152-155
IsAssetEmpty(ua) ==
    ua.Debt = 0 /\ ua.Equity = 0 /\ ua.Margin = 0 /\ ua.PortfolioMargin = 0 /\ ua.Loan = 0

\* the first tier that holds count assets, 0 if there is none
TierOfCount(count) ==
    IF \E p \in 1..Len(PaddingAssetCountsTiers) : count <= PaddingAssetCountsTiers[p]
    THEN PaddingAssetCountsTiers[CHOOSE p \in 1..Len(PaddingAssetCountsTiers) :
            /\ count <= PaddingAssetCountsTiers[p]
            /\ \A q \in 1..(p - 1) : count > PaddingAssetCountsTiers[q]]
    ELSE 0

\* the tier of the number of entries of the decoded list
GetCountOfAllEntries(assets) == TierOfCount(Len(assets))

\* part_003 163-177
GetNonEmptyAssetsCountOfUser(assets) ==
    TierOfCount(Cardinality({p \in 1..Len(assets) : ~IsAssetEmpty(assets[p])}))

\* part_003 180-190
GetAssetsCountOfUser(assets) == TierOfCount(Len(assets))

\* the padding goes on from the index of the asset itself
NextAssetIndexSame(asset) == asset.Index

\* part_003 231: currentAssetIndex = int(assets[i].Index) + 1
NextAssetIndex(asset) == asset.Index + 1

\* part_003 211-232, batch_create_user_circuit.go 447-473: the loop over the
\* assets: the indexes between the previous asset and this one are filled with
\* padding entries while paddings are left, then the asset follows
RECURSIVE PaddingLoop(_, _, _, _, _, _)
PaddingLoop(assets, i, paddingCounts, currentPaddingCounts, currentAssetIndex, out) ==
    IF i > Len(assets) THEN [out |-> out, currentAssetIndex |-> currentAssetIndex]
    ELSE LET gap == assets[i].Index - currentAssetIndex
             left == paddingCounts - currentPaddingCounts
             n == IF left <= 0 \/ gap <= 0 THEN 0 ELSE IF gap < left THEN gap ELSE left
             padding == [k \in 1..n |-> EmptyAsset(currentAssetIndex + k - 1)]
         IN  PaddingLoop(assets, i + 1, paddingCounts, currentPaddingCounts + n,
                         NextAssetIndex(assets[i]), (out \o padding) \o <<assets[i]>>)

\* part_003 233-236, batch_create_user_circuit.go 475-486: the slots that are
\* left are padding entries of the indexes that follow
PaddedAssets(assets, targetCounts) ==
    LET loop == PaddingLoop(assets, 1, targetCounts - Len(assets), 0, 0, <<>>)
    IN  loop.out \o [k \in 1..(targetCounts - Len(loop.out)) |->
                        EmptyAsset(loop.currentAssetIndex + k - 1)]

\* part_003 205, 227-230: the six fields of every entry in a row
FlattenAssets(entries) ==
    [x \in 1..(6 * Len(entries)) |->
        LET e == entries[(x - 1) \div 6 + 1]
        IN  <<e.Index, e.Equity, e.Debt, e.Loan, e.Margin, e.PortfolioMargin>>[((x - 1) % 6) + 1]]

\* part_003 198-239
PaddingAccountAssets(assets) == FlattenAssets(PaddedAssets(assets, GetAssetsCountOfUser(assets)))

\* constants.go 25: the factor between the three values packed into one element
Uint64MaxValueBigInt == 2^Uint64Bits

\* the poseidon hash of a sequence of elements
PoseidonSum(elements) == <<"poseidon", elements>>

\* part_003 262-277, utils_test.go 33-43: every three values are packed into
\* one element, values past the end of the list count as 0
PackedElements(flatten, nEles) ==
    [i \in 1..nEles |->
        LET at(x) == IF x <= Len(flatten) THEN flatten[x] ELSE 0
        IN  at(3 * i - 2) * Uint64MaxValueBigInt * Uint64MaxValueBigInt
            + at(3 * i - 1) * Uint64MaxValueBigInt + at(3 * i)]

\* part_003 248-281
ComputeUserAssetsCommitment(assets) ==
    PoseidonSum(PackedElements(PaddingAccountAssets(assets),
                               (GetAssetsCountOfUser(assets) * 6 + 2) \div 3))

\* utils_test.go 16-48: the commitment over the five amounts of every asset of
\* a list of AssetCounts entries
ComputeAssetsCommitmentForTest(userAssets) ==
    LET nEles == (PaddingAssetCounts * 5 + 2) \div 3
        flattenUserAssets ==
            [x \in 1..(3 * nEles) |->
                IF x <= 5 * PaddingAssetCounts
                THEN LET e == userAssets[(x - 1) \div 5 + 1]
                     IN  <<e.Equity, e.Debt, e.Loan, e.Margin, e.PortfolioMargin>>[((x - 1) % 5) + 1]
                ELSE 0]
    IN  PoseidonSum(PackedElements(flattenUserAssets, nEles))

\* part_003 825-840 (DecodeBatchWitness), utils_test.go 52-69: the amounts of a
\* list in a list of AssetCounts entries
FullLengthAssets(assets) ==
    [p \in 1..PaddingAssetCounts |->
        IF \E q \in 1..Len(assets) : assets[q].Index = p - 1
        THEN assets[CHOOSE q \in 1..Len(assets) : assets[q].Index = p - 1]
        ELSE EmptyAsset(p - 1)]

\* batch_create_user_circuit.go 408-490: the assets of every operation of the
\* decoded batch: the amounts of all assets of the exchange, and the padded
\* list of asset indexes whose length comes from the first operation
SetBatchCreateUserCircuitWitness(createUserOps) ==
    LET targetCounts == GetNonEmptyAssetsCountOfUser(createUserOps[1])
    IN  [i \in 1..Len(createUserOps) |->
            LET existingKeys == SelectSeq(createUserOps[i], LAMBDA u : ~IsAssetEmpty(u))
                loop == PaddingLoop(existingKeys, 1, targetCounts - Len(existingKeys), 0, 0, <<>>)
                entries == loop.out \o [k \in 1..(targetCounts - Len(loop.out)) |->
                                           EmptyAsset(loop.currentAssetIndex + k - 1)]
            IN  [AssetsForUpdateCex |->
                    [j \in 1..Len(createUserOps[i]) |->
                        [Equity |-> createUserOps[i][j].Equity,
                         Debt |-> createUserOps[i][j].Debt,
                         LoanCollateral |-> createUserOps[i][j].Loan,
                         MarginCollateral |-> createUserOps[i][j].Margin,
                         PortfolioMarginCollateral |-> createUserOps[i][j].PortfolioMargin]],
                 Assets |-> [k \in 1..Len(entries) |-> [AssetIndex |-> entries[k].Index]]]]

\* the amounts of an asset a row of a user file gives: equity or debt is not 0
\* and the collateral is within the equity
AssetAmounts ==
    {[Equity |-> 1, Debt |-> 0, Loan |-> 0, Margin |-> 0, PortfolioMargin |-> 0],
     [Equity |-> 2, Debt |-> 1, Loan |-> 1, Margin |-> 1, PortfolioMargin |-> 0],
     [Equity |-> 0, Debt |-> 3, Loan |-> 0, Margin |-> 0, PortfolioMargin |-> 0]}

\* the lists of the assets in idxs, in ascending order of the index
RECURSIVE AssetListsOf(_)
AssetListsOf(idxs) ==
    IF idxs = {} THEN {<<>>}
    ELSE LET last == CHOOSE x \in idxs : \A y \in idxs : y <= x
         IN  {Append(front, [Index |-> last] @@ amounts) :
                 front \in AssetListsOf(idxs \ {last}), amounts \in AssetAmounts}

\* part_003 611-700: the asset lists of the accounts of the user files
AssetLists == UNION {AssetListsOf(idxs) : idxs \in SUBSET (0..(PaddingAssetCounts - 1))}

\* part_003 916-926: the assets of a padding account of a tier
PaddingAccountAssetList(assetKey) == [j \in 1..assetKey |-> EmptyAsset(j - 1)]

UserAssetsInit ==
    /\ \/ \E assets \in AssetLists : utilCall = <<"PaddingAccountAssets", assets>>
       \/ \E assets \in AssetLists : utilCall = <<"ComputeUserAssetsCommitment", assets>>
       \/ \E first \in AssetLists :
             \E assets \in {a \in AssetLists : TierOfCount(Len(a)) = TierOfCount(Len(first))}
                           \cup {PaddingAccountAssetList(TierOfCount(Len(first)))} :
                utilCall = <<"SetBatchCreateUserCircuitWitness", first, assets>>
    /\ utilResult = NoResult

PaddingAccountAssetsCall ==
    /\ Called("PaddingAccountAssets")
    /\ Returns(PaddingAccountAssets(utilCall[2]))

ComputeUserAssetsCommitmentCall ==
    /\ Called("ComputeUserAssetsCommitment")
    /\ Returns(ComputeUserAssetsCommitment(utilCall[2]))

\* part_001 170, 250: the batch of the two operations is decoded and turned
\* into the witness of the circuit
SetBatchCreateUserCircuitWitnessCall ==
    /\ Called("SetBatchCreateUserCircuitWitness")
    /\ Returns(SetBatchCreateUserCircuitWitness(
                  <<FullLengthAssets(utilCall[2]), FullLengthAssets(utilCall[3])>>))

UserAssetsNext ==
    \/ PaddingAccountAssetsCall
    \/ ComputeUserAssetsCommitmentCall
    \/ SetBatchCreateUserCircuitWitnessCall


(***************************************************************************)
(* Calls of CalculateAssetValueViaTiersRatio on parsed tier lists          *)
(***************************************************************************)

TierBoundaries == {0, 3, 5, MaxTierBoundaryValue}
TierRatios == {0, 50, 100}

\* the <<boundary, ratio>> pairs of the boundaries in bs, in ascending order
RECURSIVE TierListsOf(_)
TierListsOf(bs) ==
    IF bs = {} THEN {<<>>}
    ELSE LET last == CHOOSE x \in bs : \A y \in bs : y <= x
         IN  {Append(front, <<last, ratio>>) :
                 front \in TierListsOf(bs \ {last}), ratio \in TierRatios}

\* part_003 452-501: the tier strings ParseTiersRatioFromStr accepts: at most
\* TierCount tiers, boundaries strictly ascending and at most the maximum
TierLists ==
    UNION {TierListsOf(bs) : bs \in {b \in SUBSET TierBoundaries : Cardinality(b) <= TierCount}}

TiersInit ==
    /\ \E tiers \in TierLists : \E collateralValue \in 0..(MaxTierBoundaryValue + 1) :
          utilCall = <<"CalculateAssetValueViaTiersRatio", collateralValue, tiers>>
    /\ utilResult = NoResult

\* part_003 745-747: the value of a collateral under the parsed tiers of the
\* asset; the parsed tiers are kept with the value
CalculateAssetValueViaTiersRatioCall ==
    /\ Called("CalculateAssetValueViaTiersRatio")
    /\ Returns([tiersRatio |-> ParseTiersRatio(utilCall[3]),
                value |-> CalculateAssetValueViaTiersRatio(utilCall[2],
                                                           ParseTiersRatio(utilCall[3]))])


(***************************************************************************)
(* ParseTiersRatioFromStr (part_003 452-501)                               *)
(***************************************************************************)

\* largest number of tiers of a tier string
MaxTierStrs == 2

\* part_003 459: valueMultiplier, the factor between a boundary of the string
\* and its value (10^16 in the code); the largest boundary value is no
\* multiple of it
ValueMultiplier == 3

\* the result of ConvertFloatStrToUint64 for a cell that holds the number
Converted(num) == [err |-> FALSE, num |-> num]

\* uint8(ratio): the low eight bits
Uint8(ratio) == ratio % 256

\* the entries "low-boundary:ratio" of a tier string, each cell by what
\* ConvertFloatStrToUint64 returns for it, and an entry without its ":"
TierStrs ==
    [fields   : {2},
     low      : {Converted(0), Converted(1)},
     boundary : {ConvertError, Converted(1), Converted(2), Converted(3)},
     ratio    : {ConvertError, Converted(0), Converted(50), Converted(100),
                 Converted(150), Converted(300)}]
    \cup {[fields |-> 1, low |-> Converted(0), boundary |-> Converted(1),
           ratio |-> Converted(0)]}

\* part_003 459-497: the loop over the entries of the string, i counted from 1
RECURSIVE ParseTiersRatioLoop(_, _, _)
ParseTiersRatioLoop(tiersRatioStrs, i, tiersRatio) ==
    IF i > Len(tiersRatioStrs)
    THEN [err |-> FALSE,
          tiersRatio |-> PaddingTierRatios(CalculatePrecomputedValue(tiersRatio))]
    ELSE LET e == tiersRatioStrs[i]
         IN  IF \/ e.fields # 2
                \/ e.low.err
                \/ e.boundary.err
                \/ e.ratio.err
                \/ e.boundary.num * ValueMultiplier < e.low.num * ValueMultiplier
                \/ e.boundary.num * ValueMultiplier > MaxTierBoundaryValue
                \/ (i > 1 /\ e.boundary.num * ValueMultiplier
                                 <= tiersRatio[i - 1].BoundaryValue)
             THEN [err |-> TRUE, tiersRatio |-> PaddingTierRatios(<<>>)]
             ELSE ParseTiersRatioLoop(tiersRatioStrs, i + 1,
                      Append(tiersRatio,
                             TierRatio(e.boundary.num * ValueMultiplier,
                                       Uint8(e.ratio.num), 0)))

\* part_003 452-501
ParseTiersRatioFromStr(tiersRatioStrs) ==
    IF Len(tiersRatioStrs) = 0
    THEN [err |-> FALSE, tiersRatio |-> PaddingTierRatios(<<>>)]
    ELSE ParseTiersRatioLoop(tiersRatioStrs, 1, <<>>)

TiersParseInit ==
    /\ \E n \in 0..MaxTierStrs : \E tiersRatioStrs \in [1..n -> TierStrs] :
          \E collateralValue \in 0..(MaxTierBoundaryValue + 1) :
             utilCall = <<"ParseTiersRatioFromStr", tiersRatioStrs, collateralValue>>
    /\ utilResult = NoResult

\* part_003 547-557, 745-747: a tier string of cex_assets_info.csv is parsed
\* and a collateral value is valued under the tiers it gave
ParseTiersRatioFromStrCall ==
    /\ Called("ParseTiersRatioFromStr")
    /\ LET parsed == ParseTiersRatioFromStr(utilCall[2])
       IN  Returns([err |-> parsed.err,
                    tiersRatio |-> parsed.tiersRatio,
                    value |-> CalculateAssetValueViaTiersRatio(utilCall[3],
                                                               parsed.tiersRatio)])


(***************************************************************************)
(* ConvertTierRatiosToBytes (part_003 32-61)                               *)
(***************************************************************************)

\* constants.go 27: the factor above the 8 bits of a ratio
Uint8MaxValueBigInt == 256
\* constants.go 29: the factor above the first tier of a pair: the 8 bits of
\* its ratio and the bits of a boundary below MaxTierBoundaryValue (2^126 in
\* the code, with MaxTierBoundaryValue = 2^118)
Uint126MaxValueBigInt == Uint8MaxValueBigInt * MaxTierBoundaryValue
\* constants.go 30: the factor above the ratio of the second tier (2^134)
Uint134MaxValueBigInt == Uint126MaxValueBigInt * Uint8MaxValueBigInt
\* the modulus of the scalar field of BN254, between 3 * 2^252 and 2^254, at
\* the widths above
FrModulus == 3 * Uint126MaxValueBigInt * Uint126MaxValueBigInt + 1

\* the ratio of the second tier one factor too low
PackTierPairOverlapping(first, second) ==
    (first.Ratio + first.BoundaryValue * Uint8MaxValueBigInt)
    + (second.Ratio * Uint8MaxValueBigInt + second.BoundaryValue * Uint134MaxValueBigInt)

\* part_003 45-57: two tiers in one number
PackTierPair(first, second) ==
    (first.Ratio + first.BoundaryValue * Uint8MaxValueBigInt)
    + (second.Ratio * Uint126MaxValueBigInt + second.BoundaryValue * Uint134MaxValueBigInt)

\* part_003 32-61: the pairs of the list; a list of odd length is read past
\* its end, which panics
ConvertTierRatiosToBytes(tiersRatio) ==
    IF Len(tiersRatio) % 2 # 0 THEN [panic |-> TRUE, res |-> <<>>]
    ELSE [panic |-> FALSE,
          res |-> [i \in 1..(Len(tiersRatio) \div 2) |->
                      PackTierPair(tiersRatio[2 * i - 1], tiersRatio[2 * i])]]

\* the entries of the tier strings of the calls: boundaries up to the largest
\* one a string can give, ratios up to the largest uint8
PackedTierStrs ==
    [fields   : {2},
     low      : {Converted(0)},
     boundary : {Converted(b) : b \in 0..(MaxTierBoundaryValue \div ValueMultiplier)},
     ratio    : {Converted(0), Converted(1), Converted(ValueMultiplier), Converted(255)}]

TierPackingInit ==
    /\ \E n \in 0..MaxTierStrs : \E m \in 0..MaxTierStrs :
          \E one \in [1..n -> PackedTierStrs] : \E other \in [1..m -> PackedTierStrs] :
             utilCall = <<"ConvertTierRatiosToBytes", one, other>>
    /\ utilResult = NoResult

\* part_003 95-103, 547-557: the tier lists parsed from two tier strings are
\* packed for the commitment of the CEX asset
ConvertTierRatiosToBytesCall ==
    /\ Called("ConvertTierRatiosToBytes")
    /\ LET one == ParseTiersRatioFromStr(utilCall[2])
           other == ParseTiersRatioFromStr(utilCall[3])
       IN  Returns([err |-> one.err \/ other.err,
                    tiersRatio |-> <<one.tiersRatio, other.tiersRatio>>,
                    packed |-> <<ConvertTierRatiosToBytes(one.tiersRatio),
                                 ConvertTierRatiosToBytes(other.tiersRatio)>>])


(***************************************************************************)
(* The running CEX totals of an asset (part_003 397-403, 863-874,          *)
(* part_004 582-589)                                                       *)
(***************************************************************************)

\* largest number of operations whose amounts are added in one call
MaxReplayOps == 2

\* the five totals of an asset of the CEX, in the order of the additions
CexTotalFields ==
    <<"TotalEquity", "TotalDebt", "LoanCollateral", "MarginCollateral",
      "PortfolioMarginCollateral">>

\* the amount of an account's asset that is added to the total
AmountOfTotal(asset) ==
    [TotalEquity |-> asset.Equity, TotalDebt |-> asset.Debt, LoanCollateral |-> asset.Loan,
     MarginCollateral |-> asset.Margin, PortfolioMarginCollateral |-> asset.PortfolioMargin]

\* part_004 584-588, part_003 868-872: the five additions for one asset of an
\* account, one after the other; the first overflow panics
RECURSIVE SafeAddAsset(_, _, _)
SafeAddAsset(totals, asset, f) ==
    IF f > Len(CexTotalFields) THEN [panic |-> FALSE, totals |-> totals]
    ELSE LET field == CexTotalFields[f]
             sum == SafeAdd(totals[field], AmountOfTotal(asset)[field])
         IN  IF sum.panic THEN [panic |-> TRUE, totals |-> totals]
             ELSE SafeAddAsset([totals EXCEPT ![field] = sum.c], asset, f + 1)

\* part_003 865-874, part_004 478-481: the assets of the operations are added
\* in the order of the operations
RECURSIVE SafeAddOps(_, _)
SafeAddOps(totals, assets) ==
    IF assets = <<>> THEN [panic |-> FALSE, totals |-> totals]
    ELSE LET first == SafeAddAsset(totals, Head(assets), 1)
         IN  IF first.panic THEN first ELSE SafeAddOps(first.totals, Tail(assets))

\* totals before the additions: those of the start and totals near the top of
\* the range
CexTotalsBefore ==
    {[field \in Range(CexTotalFields) |-> 0],
     [field \in Range(CexTotalFields) |-> MaxUint64 - 3]}

\* the amounts of an asset of an account
AssetAmountsToAdd ==
    [Index : {0}, Equity : {0, 5}, Debt : {0, 3}, Loan : {0, 4}, Margin : {0, 1},
     PortfolioMargin : {0, MaxUint64}]

CexTotalsInit ==
    /\ \/ \E a \in 0..MaxUint64 : \E b \in 0..MaxUint64 : utilCall = <<"SafeAdd", a, b>>
       \/ \E fn \in {"ExecuteBatchCreateUser", "RecoverAfterCexAssets"} :
             \E totals \in CexTotalsBefore : \E n \in 0..MaxReplayOps :
                \E assets \in [1..n -> AssetAmountsToAdd] :
                   utilCall = <<fn, totals, assets>>
    /\ utilResult = NoResult

SafeAddCall ==
    /\ Called("SafeAdd")
    /\ Returns(SafeAdd(utilCall[2], utilCall[3]))

\* part_004 478-481, 582-589: the operations of a batch are executed one after
\* the other, each adding its amounts to w.cexAssets
ExecuteBatchCreateUserTotalsCall ==
    /\ Called("ExecuteBatchCreateUser")
    /\ Returns(SafeAddOps(utilCall[2], utilCall[3]))

\* part_003 863-874: the amounts of the operations of the latest row are added
\* to its BeforeCexAssets
RecoverAfterCexAssetsCall ==
    /\ Called("RecoverAfterCexAssets")
    /\ Returns(SafeAddOps(utilCall[2], utilCall[3]))

CexTotalsNext ==
    \/ SafeAddCall
    \/ ExecuteBatchCreateUserTotalsCall
    \/ RecoverAfterCexAssetsCall


(***************************************************************************)
(* The account indexes of the user files and of the padding accounts       *)
(* (part_003 291-395, 913-939, part_004 622-632)                           *)
(***************************************************************************)

\* largest number of user files
MaxUserFiles == 3
\* largest number of valid accounts of a user file
MaxFileAccounts == 2

\* part_003 600-712: what ReadUserDataFromCsvFile returns for a file whose
\* valid rows fall into the tiers given: the account of row n has index n - 1
ReadUserFile(rowTiers) ==
    [k \in Range(AssetCountsTiers) |->
        LET rows == SelectSeq([n \in 1..Len(rowTiers) |-> <<n, rowTiers[n]>>],
                              LAMBDA row : row[2] = k)
        IN  [x \in 1..Len(rows) |-> UserAccount(rows[x][1] - 1, k)]]

TotalAccounts(accountInfo) ==
    LET RECURSIVE Sum(_)
        Sum(ks) == IF ks = {} THEN 0
                   ELSE LET k == CHOOSE x \in ks : TRUE
                        IN  Len(accountInfo[k]) + Sum(ks \ {k})
    IN  Sum(DOMAIN accountInfo)

\* the indexes of every file are used as the file gives them
NoIndexOffset(i, accountInfo) == 0

\* part_003 369-373: the accounts of every file but the first are moved by the
\* number of accounts merged so far
CurrentAccountIndex(i, accountInfo) == IF i # 1 THEN TotalAccounts(accountInfo) ELSE 0

\* part_003 365-387: the results of the files are merged in the order of the
\* files
RECURSIVE MergeUserFiles(_, _)
MergeUserFiles(files, i) ==
    IF i = 0 THEN [k \in Range(AssetCountsTiers) |-> <<>>]
    ELSE LET accountInfo == MergeUserFiles(files, i - 1)
             res == ReadUserFile(files[i])
             currentAccountIndex == CurrentAccountIndex(i, accountInfo)
         IN  [k \in Range(AssetCountsTiers) |->
                accountInfo[k] \o
                [x \in 1..Len(res[k]) |->
                    [res[k][x] EXCEPT !.AccountIndex = @ + currentAccountIndex]]]

\* the tiers of the valid rows of the user files
UserFiles ==
    UNION {[1..n -> UNION {[1..r -> Range(AssetCountsTiers)] : r \in 0..MaxFileAccounts}] :
              n \in 1..MaxUserFiles}

UserFilesInit ==
    /\ \E files \in UserFiles : utilCall = <<"ParseUserDataSet", files>>
    /\ utilResult = NoResult

\* witness/main.go 34-56, part_004 315-347: the user files are parsed and
\* merged, and NewWitness and Run pad the accounts of every tier
ParseUserDataSetCall ==
    /\ Called("ParseUserDataSet")
    /\ Returns(PaddedOps(MergeUserFiles(utilCall[2], Len(utilCall[2]))))


(***************************************************************************)
(* The SNARK parameters of a prover (part_001 244-398)                     *)
(***************************************************************************)

\* largest number of batches a prover proves
MaxSnarkBatches == 3

SnarkIdle ==
    /\ snarkPc = "down"
    /\ snarkConfig = <<>>
    /\ snarkBatches = <<>>
    /\ targerAssetsCount = 0
    /\ CurrentSnarkParamsInUse = 0
    /\ R1cs = 0
    /\ ProvingKey = 0
    /\ VerifyingKey = 0

\* part_001 47-76: NewProver: no parameters are loaded; the configuration
\* names the session files of some of the tiers
SnarkInit ==
    /\ snarkPc = "idle"
    /\ snarkConfig \in {AssetCountsTiers} \cup {<<k>> : k \in Range(AssetCountsTiers)}
    /\ snarkBatches \in UNION {[1..n -> Range(AssetCountsTiers)] : n \in 1..MaxSnarkBatches}
    /\ targerAssetsCount = 0
    /\ CurrentSnarkParamsInUse = 0
    /\ R1cs = 0
    /\ ProvingKey = 0
    /\ VerifyingKey = 0

\* the parameters are loaded only when none are loaded yet
NoParamsInUse(target, current) == current = 0

\* part_001 295: targerAssetsCount == p.CurrentSnarkParamsInUse returns
ParamsDiffer(target, current) == target # current

\* part_001 250-252, 292-309: GenerateAndVerifyProof calls LoadSnarkParamsOnce
\* with the asset count of the batch's first operation; the parameters in use
\* are kept when they are of that count, a count that is not configured panics
LoadSnarkParamsOnce ==
    /\ snarkPc = "idle"
    /\ snarkBatches # <<>>
    /\ targerAssetsCount' = Head(snarkBatches)
    /\ IF ~ParamsDiffer(Head(snarkBatches), CurrentSnarkParamsInUse)
       THEN snarkPc' = "prove"
       ELSE IF Head(snarkBatches) \notin Range(snarkConfig)
       THEN snarkPc' = "panicked"
       ELSE snarkPc' = "r1cs"
    /\ UNCHANGED <<snarkConfig, snarkBatches, CurrentSnarkParamsInUse, R1cs, ProvingKey,
                   VerifyingKey>>
    /\ UNCHANGED notSnarkVars

\* part_001 332-350: the .r1cs file of the tier is read; a file that cannot be
\* read panics
LoadR1cs ==
    /\ snarkPc = "r1cs"
    /\ \/ R1cs' = targerAssetsCount /\ snarkPc' = "pk"
       \/ R1cs' = 0 /\ snarkPc' = "panicked"
    /\ UNCHANGED <<snarkConfig, snarkBatches, targerAssetsCount, CurrentSnarkParamsInUse,
                   ProvingKey, VerifyingKey>>
    /\ UNCHANGED notSnarkVars

\* part_001 354-372
LoadProvingKey ==
    /\ snarkPc = "pk"
    /\ \/ ProvingKey' = targerAssetsCount /\ snarkPc' = "vk"
       \/ ProvingKey' = 0 /\ snarkPc' = "panicked"
    /\ UNCHANGED <<snarkConfig, snarkBatches, targerAssetsCount, CurrentSnarkParamsInUse,
                   R1cs, VerifyingKey>>
    /\ UNCHANGED notSnarkVars

\* part_001 374-397: the verifying key is read, then the parameters in use are
\* those of the tier
LoadVerifyingKey ==
    /\ snarkPc = "vk"
    /\ \/ /\ VerifyingKey' = targerAssetsCount
          /\ CurrentSnarkParamsInUse' = targerAssetsCount
          /\ snarkPc' = "prove"
       \/ /\ VerifyingKey' = 0
          /\ snarkPc' = "panicked"
          /\ UNCHANGED CurrentSnarkParamsInUse
    /\ UNCHANGED <<snarkConfig, snarkBatches, targerAssetsCount, R1cs, ProvingKey>>
    /\ UNCHANGED notSnarkVars

\* part_001 253-267: groth16.Prove(p.R1cs, p.ProvingKey, witness); an error
\* ends the prover
Groth16Prove ==
    /\ snarkPc = "prove"
    /\ snarkPc' \in {"verify", "returned"}
    /\ UNCHANGED <<snarkConfig, snarkBatches, targerAssetsCount, CurrentSnarkParamsInUse,
                   R1cs, ProvingKey, VerifyingKey>>
    /\ UNCHANGED notSnarkVars

\* part_001 269-276: groth16.Verify(proof, p.VerifyingKey, vWitness), then the
\* next batch
Groth16Verify ==
    /\ snarkPc = "verify"
    /\ \/ snarkPc' = "idle" /\ snarkBatches' = Tail(snarkBatches)
       \/ snarkPc' = "returned" /\ UNCHANGED snarkBatches
    /\ UNCHANGED <<snarkConfig, targerAssetsCount, CurrentSnarkParamsInUse, R1cs,
                   ProvingKey, VerifyingKey>>
    /\ UNCHANGED notSnarkVars

SnarkNext ==
    \/ LoadSnarkParamsOnce
    \/ LoadR1cs
    \/ LoadProvingKey
    \/ LoadVerifyingKey
    \/ Groth16Prove
    \/ Groth16Verify

(***************************************************************************)
(* The user proof exporter (src/userproof/main.go)                         *)
(***************************************************************************)

\* largest number of accounts of the user files
MaxExportAccounts == 4

\* records of one insert of WriteDB: 100 in the code
InsertSize == 2

\* capacity of the jobs and of the results channel: 1000 in the code
ChanCapacity == 2

\* largest number of starts of the exporter
MaxExportRuns == 3

RECURSIVE AccountsOfKey(_, _, _)
\* part_003 703-713: the accounts of asset key k, in the order of their rows;
\* keyOf[i] is the key of the account of index i - 1
AccountsOfKey(keyOf, k, i) ==
    IF i > Len(keyOf) THEN <<>>
    ELSE (IF keyOf[i] = k THEN <<i - 1>> ELSE <<>>) \o AccountsOfKey(keyOf, k, i + 1)

\* main.go 31-42: the accounts of the user files by asset key; a key without
\* an account is no key of the map
HandleUserData(keyOf) ==
    [k \in Range(keyOf) |-> AccountsOfKey(keyOf, k, 1)]

AccountMaps ==
    {HandleUserData(keyOf) :
        keyOf \in UNION {[1..n -> Range(AssetCountsTiers)] : n \in 0..MaxExportAccounts}}

RECURSIVE SortInts(_)
\* main.go 210: sort.Ints
SortInts(S) ==
    IF S = {} THEN <<>>
    ELSE LET low == CHOOSE x \in S : \A y \in S : x <= y
         IN <<low>> \o SortInts(S \ {low})

\* main.go 205-210
accountAssetKeys == SortInts(DOMAIN accountsMap)

\* main.go 287-290
expectedTotalCounts ==
    LET RECURSIVE Sum(_)
        Sum(S) == IF S = {} THEN 0
                  ELSE LET k == CHOOSE x \in S : TRUE
                       IN Len(accountsMap[k]) + Sum(S \ {k})
    IN Sum(DOMAIN accountsMap)

\* userproof_model.go 152-159
GetUserCounts(table) == Len(table)

\* userproof_model.go 30-31, 83-89: one INSERT of all the rows; the unique index
\* on account_index rejects the whole statement
CreateUserProofs(table, rows) ==
    IF \/ \E i \in 1..Len(rows) : \E j \in 1..Len(table) :
              rows[i].AccountIndex = table[j].AccountIndex
       \/ \E i, j \in 1..Len(rows) : i # j /\ rows[i].AccountIndex = rows[j].AccountIndex
    THEN [err |-> TRUE, table |-> table]
    ELSE [err |-> FALSE, table |-> table \o rows]

\* the worker holds no job
NoJob == [account |-> Nil]

\* main.go 370-401: the record of an account
ConvertAccount(job) == [AccountIndex |-> job.account]

\* every job of a group is sent again
FirstJobOfGroupStart(current, prev) == 0

\* main.go 251: the first account of a group that is not in the table yet
FirstJobOfGroup(current, prev) == current - prev

ExporterRunning == epc \in {"groups", "jobs", "nums", "quit"}

ExporterIdle ==
    /\ accountsMap = <<>>
    /\ userproofTable = <<>>
    /\ epc = "down"
    /\ exportRuns = 0
    /\ currentAccountCounts = 0
    /\ prevAccountCounts = 0
    /\ totalCounts = 0
    /\ keyPos = 1
    /\ jobI = 0
    /\ jobs = <<>>
    /\ jobsClosed = FALSE
    /\ results = <<>>
    /\ resultsClosed = FALSE
    /\ nums = <<>>
    /\ exportQuit = <<>>
    /\ workerPc = "down"
    /\ workerJob = NoJob
    /\ workerNum = 0
    /\ writerPc = "down"
    /\ dbProofs = <<>>
    /\ writerNum = 0

\* the user files and an empty userproof table; no exporter runs
ExporterInit ==
    /\ accountsMap \in AccountMaps
    /\ userproofTable = <<>>
    /\ epc = "down"
    /\ exportRuns = 0
    /\ currentAccountCounts = 0
    /\ prevAccountCounts = 0
    /\ totalCounts = 0
    /\ keyPos = 1
    /\ jobI = 0
    /\ jobs = <<>>
    /\ jobsClosed = FALSE
    /\ results = <<>>
    /\ resultsClosed = FALSE
    /\ nums = <<>>
    /\ exportQuit = <<>>
    /\ workerPc = "down"
    /\ workerJob = NoJob
    /\ workerNum = 0
    /\ writerPc = "down"
    /\ dbProofs = <<>>
    /\ writerNum = 0

\* main.go 213-243: the table is counted, the channels are made, the worker
\* and the writer are started
StartExporter ==
    /\ epc \in {"down", "finished", "panicked"}
    /\ exportRuns < MaxExportRuns
    /\ exportRuns' = exportRuns + 1
    /\ currentAccountCounts' = GetUserCounts(userproofTable)
    /\ totalCounts' = GetUserCounts(userproofTable)
    /\ prevAccountCounts' = 0
    /\ keyPos' = 1
    /\ jobI' = 0
    /\ jobs' = <<>>
    /\ jobsClosed' = FALSE
    /\ results' = <<>>
    /\ resultsClosed' = FALSE
    /\ nums' = <<>>
    /\ exportQuit' = <<>>
    /\ workerPc' = "recv"
    /\ workerJob' = NoJob
    /\ workerNum' = 0
    /\ writerPc' = "recv"
    /\ dbProofs' = <<>>
    /\ writerNum' = GetUserCounts(userproofTable)
    /\ epc' = "groups"
    /\ UNCHANGED <<accountsMap, userproofTable>>
    /\ UNCHANGED notExporterVars

\* main.go 242-251: the next group; a group that is in the table is skipped
NextGroup ==
    /\ epc = "groups"
    /\ keyPos <= Len(accountAssetKeys)
    /\ LET accounts == accountsMap[accountAssetKeys[keyPos]]
       IN IF currentAccountCounts >= Len(accounts) + prevAccountCounts
          THEN /\ prevAccountCounts' = Len(accounts) + prevAccountCounts
               /\ keyPos' = keyPos + 1
               /\ UNCHANGED <<epc, jobI>>
          ELSE /\ jobI' = FirstJobOfGroup(currentAccountCounts, prevAccountCounts)
               /\ epc' = "jobs"
               /\ UNCHANGED <<prevAccountCounts, keyPos>>
    /\ UNCHANGED <<accountsMap, userproofTable, exportRuns, currentAccountCounts, totalCounts,
                   jobs, jobsClosed, results, resultsClosed, nums, exportQuit, workerPc,
                   workerJob, workerNum, writerPc, dbProofs, writerNum>>
    /\ UNCHANGED notExporterVars

\* main.go 251-266: the job of one account is sent
SendJob ==
    /\ epc = "jobs"
    /\ jobI < Len(accountsMap[accountAssetKeys[keyPos]])
    /\ Len(jobs) < ChanCapacity
    /\ jobs' = Append(jobs, [account |-> accountsMap[accountAssetKeys[keyPos]][jobI + 1]])
    /\ jobI' = jobI + 1
    /\ UNCHANGED <<accountsMap, userproofTable, epc, exportRuns, currentAccountCounts,
                   prevAccountCounts, totalCounts, keyPos, jobsClosed, results, resultsClosed,
                   nums, exportQuit, workerPc, workerJob, workerNum, writerPc, dbProofs,
                   writerNum>>
    /\ UNCHANGED notExporterVars

\* main.go 268-269: the end of a group
EndGroup ==
    /\ epc = "jobs"
    /\ jobI >= Len(accountsMap[accountAssetKeys[keyPos]])
    /\ prevAccountCounts' = prevAccountCounts + Len(accountsMap[accountAssetKeys[keyPos]])
    /\ currentAccountCounts' = prevAccountCounts'
    /\ keyPos' = keyPos + 1
    /\ epc' = "groups"
    /\ UNCHANGED <<accountsMap, userproofTable, exportRuns, totalCounts, jobI, jobs,
                   jobsClosed, results, resultsClosed, nums, exportQuit, workerPc, workerJob,
                   workerNum, writerPc, dbProofs, writerNum>>
    /\ UNCHANGED notExporterVars

\* main.go 273: close(jobs)
CloseJobs ==
    /\ epc = "groups"
    /\ keyPos > Len(accountAssetKeys)
    /\ jobsClosed' = TRUE
    /\ epc' = "nums"
    /\ UNCHANGED <<accountsMap, userproofTable, exportRuns, currentAccountCounts,
                   prevAccountCounts, totalCounts, keyPos, jobI, jobs, results,
                   resultsClosed, nums, exportQuit, workerPc, workerJob, workerNum, writerPc,
                   dbProofs, writerNum>>
    /\ UNCHANGED notExporterVars

\* main.go 274-291: the count of the worker is checked and results is closed
ReceiveNums ==
    /\ epc = "nums"
    /\ nums # <<>>
    /\ nums' = Tail(nums)
    /\ totalCounts' = totalCounts + Head(nums)
    /\ IF totalCounts' # expectedTotalCounts
       THEN epc' = "panicked" /\ UNCHANGED resultsClosed
       ELSE epc' = "quit" /\ resultsClosed' = TRUE
    /\ UNCHANGED <<accountsMap, userproofTable, exportRuns, currentAccountCounts,
                   prevAccountCounts, keyPos, jobI, jobs, jobsClosed, results, exportQuit,
                   workerPc, workerJob, workerNum, writerPc, dbProofs, writerNum>>
    /\ UNCHANGED notExporterVars

\* main.go 292-295: main returns when the writer has quit
ReceiveQuit ==
    /\ epc = "quit"
    /\ exportQuit # <<>>
    /\ exportQuit' = Tail(exportQuit)
    /\ epc' = "finished"
    /\ UNCHANGED <<accountsMap, userproofTable, exportRuns, currentAccountCounts,
                   prevAccountCounts, totalCounts, keyPos, jobI, jobs, jobsClosed, results,
                   resultsClosed, nums, workerPc, workerJob, workerNum, writerPc, dbProofs,
                   writerNum>>
    /\ UNCHANGED notExporterVars

\* main.go 353: worker takes a job
WorkerReceiveJob ==
    /\ ExporterRunning
    /\ workerPc = "recv"
    /\ jobs # <<>>
    /\ workerJob' = Head(jobs)
    /\ jobs' = Tail(jobs)
    /\ workerPc' = "send"
    /\ UNCHANGED <<accountsMap, userproofTable, epc, exportRuns, currentAccountCounts,
                   prevAccountCounts, totalCounts, keyPos, jobI, jobsClosed, results,
                   resultsClosed, nums, exportQuit, workerNum, writerPc, dbProofs, writerNum>>
    /\ UNCHANGED notExporterVars

\* main.go 354-356: worker sends the record of the job
WorkerSendResult ==
    /\ ExporterRunning
    /\ workerPc = "send"
    /\ Len(results) < ChanCapacity
    /\ results' = Append(results, ConvertAccount(workerJob))
    /\ workerNum' = workerNum + 1
    /\ workerJob' = NoJob
    /\ workerPc' = "recv"
    /\ UNCHANGED <<accountsMap, userproofTable, epc, exportRuns, currentAccountCounts,
                   prevAccountCounts, totalCounts, keyPos, jobI, jobs, jobsClosed,
                   resultsClosed, nums, exportQuit, writerPc, dbProofs, writerNum>>
    /\ UNCHANGED notExporterVars

\* main.go 353, 358: jobs is closed and empty
WorkerExit ==
    /\ ExporterRunning
    /\ workerPc = "recv"
    /\ jobs = <<>>
    /\ jobsClosed
    /\ nums' = Append(nums, workerNum)
    /\ workerPc' = "done"
    /\ UNCHANGED <<accountsMap, userproofTable, epc, exportRuns, currentAccountCounts,
                   prevAccountCounts, totalCounts, keyPos, jobI, jobs, jobsClosed, results,
                   resultsClosed, exportQuit, workerJob, workerNum, writerPc, dbProofs,
                   writerNum>>
    /\ UNCHANGED notExporterVars

\* main.go 310-326: WriteDB takes a record; a full buffer is inserted
WriteDBReceive ==
    /\ ExporterRunning
    /\ writerPc = "recv"
    /\ results # <<>>
    /\ results' = Tail(results)
    /\ LET proofsNow == Append(dbProofs, Head(results))
           created == CreateUserProofs(userproofTable, proofsNow)
       IN IF Len(proofsNow) % InsertSize = 0
          THEN /\ userproofTable' = created.table
               /\ IF created.err
                  THEN epc' = "panicked" /\ UNCHANGED <<writerNum, dbProofs>>
                  ELSE /\ writerNum' = writerNum + InsertSize
                       /\ dbProofs' = <<>>
                       /\ UNCHANGED epc
          ELSE /\ dbProofs' = proofsNow
               /\ UNCHANGED <<userproofTable, epc, writerNum>>
    /\ UNCHANGED <<accountsMap, exportRuns, currentAccountCounts, prevAccountCounts,
                   totalCounts, keyPos, jobI, jobs, jobsClosed, resultsClosed, nums,
                   exportQuit, workerPc, workerJob, workerNum, writerPc>>
    /\ UNCHANGED notExporterVars

\* main.go 328-335: results is closed and empty; the rest of the buffer is
\* inserted, an error of this insert is dropped
WriteDBRest ==
    /\ ExporterRunning
    /\ writerPc = "recv"
    /\ results = <<>>
    /\ resultsClosed
    /\ IF Len(dbProofs) > 0
       THEN /\ userproofTable' = CreateUserProofs(userproofTable, dbProofs).table
            /\ writerNum' = writerNum + Len(dbProofs)
       ELSE UNCHANGED <<userproofTable, writerNum>>
    /\ exportQuit' = Append(exportQuit, 0)
    /\ writerPc' = "done"
    /\ UNCHANGED <<accountsMap, epc, exportRuns, currentAccountCounts, prevAccountCounts,
                   totalCounts, keyPos, jobI, jobs, jobsClosed, results, resultsClosed, nums,
                   workerPc, workerJob, workerNum, dbProofs>>
    /\ UNCHANGED notExporterVars

\* the process is killed: the table stays, the channels and the goroutines go
KillExporter ==
    /\ ExporterRunning
    /\ epc' = "down"
    /\ currentAccountCounts' = 0
    /\ prevAccountCounts' = 0
    /\ totalCounts' = 0
    /\ keyPos' = 1
    /\ jobI' = 0
    /\ jobs' = <<>>
    /\ jobsClosed' = FALSE
    /\ results' = <<>>
    /\ resultsClosed' = FALSE
    /\ nums' = <<>>
    /\ exportQuit' = <<>>
    /\ workerPc' = "down"
    /\ workerJob' = NoJob
    /\ workerNum' = 0
    /\ writerPc' = "down"
    /\ dbProofs' = <<>>
    /\ writerNum' = 0
    /\ UNCHANGED <<accountsMap, userproofTable, exportRuns>>
    /\ UNCHANGED notExporterVars

ExporterNext ==
    \/ StartExporter
    \/ NextGroup
    \/ SendJob
    \/ EndGroup
    \/ CloseJobs
    \/ ReceiveNums
    \/ ReceiveQuit
    \/ WorkerReceiveJob
    \/ WorkerSendResult
    \/ WorkerExit
    \/ WriteDBReceive
    \/ WriteDBRest
    \/ KillExporter

InitVerifier ==
    /\ VerifierInit
    /\ ProverIdle
    /\ BuilderIdle
    /\ CsvIdle
    /\ UtilIdle
    /\ SnarkIdle
    /\ ExporterIdle

SpecVerifier == InitVerifier /\ [][VerifierNext]_vars

InitProver ==
    /\ ProverInit
    /\ VerifierIdle
    /\ BuilderIdle
    /\ CsvIdle
    /\ UtilIdle
    /\ SnarkIdle
    /\ ExporterIdle

SpecProver == InitProver /\ [][ProverNext]_vars

InitRerun ==
    /\ RerunInit
    /\ VerifierIdle
    /\ BuilderIdle
    /\ CsvIdle
    /\ UtilIdle
    /\ SnarkIdle
    /\ ExporterIdle

SpecRerun == InitRerun /\ [][ProverNext]_vars

InitMockProver ==
    /\ MockProverInit
    /\ VerifierIdle
    /\ BuilderIdle
    /\ CsvIdle
    /\ UtilIdle
    /\ SnarkIdle
    /\ ExporterIdle

SpecMockProver == InitMockProver /\ [][MockProverNext]_vars /\ MockProverFairness

InitWitness ==
    /\ BuilderInit
    /\ VerifierIdle
    /\ ProverIdle
    /\ CsvIdle
    /\ UtilIdle
    /\ SnarkIdle
    /\ ExporterIdle

SpecWitness == InitWitness /\ [][BuilderNext]_vars

\* every goroutine of a running builder that can take a step eventually takes
\* one (the Go scheduler); the start of a run and a crash are not forced
BuilderFairness ==
    /\ WF_vars(BatchLoop)
    /\ WF_vars(ExecuteBatchCreateUser)
    /\ WF_vars(CommitBatch)
    /\ WF_vars(SendWitness)
    /\ WF_vars(CloseChannel)
    /\ WF_vars(WaitQuit)
    /\ \A index \in HasherWorkers : WF_vars(ComputeAccountHash(index))
    /\ WF_vars(WriterReceive)
    /\ WF_vars(CreateBatchWitness)
    /\ WF_vars(StoreCurrentBatchNumber)

SpecWitnessFair == InitWitness /\ [][BuilderNext]_vars /\ BuilderFairness

\* the witness builder over a tree store that does not outlive the process
SpecWitnessMemoryTree == InitWitness /\ [][BuilderNext \/ TreeStoreLost]_vars

InitCsv ==
    /\ CsvInit
    /\ VerifierIdle
    /\ ProverIdle
    /\ BuilderIdle
    /\ UtilIdle
    /\ SnarkIdle
    /\ ExporterIdle

SpecCsv == InitCsv /\ [][CsvNext]_vars

\* every component but the called function is at rest
OthersIdle ==
    /\ VerifierIdle
    /\ ProverIdle
    /\ BuilderIdle
    /\ CsvIdle
    /\ SnarkIdle
    /\ ExporterIdle

InitMerkle == MerkleInit /\ OthersIdle

SpecMerkle == InitMerkle /\ [][VerifyMerkleProofCall]_vars

InitUserAssets == UserAssetsInit /\ OthersIdle

SpecUserAssets == InitUserAssets /\ [][UserAssetsNext]_vars

InitTiers == TiersInit /\ OthersIdle

SpecTiers == InitTiers /\ [][CalculateAssetValueViaTiersRatioCall]_vars

InitTiersParse == TiersParseInit /\ OthersIdle

SpecTiersParse == InitTiersParse /\ [][ParseTiersRatioFromStrCall]_vars

InitCexTotals == CexTotalsInit /\ OthersIdle

SpecCexTotals == InitCexTotals /\ [][CexTotalsNext]_vars

InitTierPacking == TierPackingInit /\ OthersIdle

SpecTierPacking == InitTierPacking /\ [][ConvertTierRatiosToBytesCall]_vars

InitUserFiles == UserFilesInit /\ OthersIdle

InitSnark ==
    /\ SnarkInit
    /\ VerifierIdle
    /\ ProverIdle
    /\ BuilderIdle
    /\ CsvIdle
    /\ UtilIdle
    /\ ExporterIdle

SpecSnark == InitSnark /\ [][SnarkNext]_vars

SpecUserFiles == InitUserFiles /\ [][ParseUserDataSetCall]_vars

InitExporter ==
    /\ ExporterInit
    /\ VerifierIdle
    /\ ProverIdle
    /\ BuilderIdle
    /\ CsvIdle
    /\ UtilIdle
    /\ SnarkIdle

SpecExporter == InitExporter /\ [][ExporterNext]_vars

\* every goroutine of a running exporter that can take a step eventually takes
\* one; a start and a kill are not forced
ExporterFairness ==
    /\ WF_vars(NextGroup)
    /\ WF_vars(SendJob)
    /\ WF_vars(EndGroup)
    /\ WF_vars(CloseJobs)
    /\ WF_vars(ReceiveNums)
    /\ WF_vars(ReceiveQuit)
    /\ WF_vars(WorkerReceiveJob)
    /\ WF_vars(WorkerSendResult)
    /\ WF_vars(WorkerExit)
    /\ WF_vars(WriteDBReceive)
    /\ WF_vars(WriteDBRest)

SpecExporterFair == InitExporter /\ [][ExporterNext]_vars /\ ExporterFairness

(***************************************************************************)
(* Claims about the verifier                                               *)
(***************************************************************************)
\* C1: the success report is reached only if Groth16 verification succeeded
\* for every batch 0..N-1, whatever the position of a failing batch in its
\* worker's range.
C1_SuccessOnlyIfAllGroth16Verified ==
    vpc = "passed" => \A k \in 1..Len(proofs) : proofs[k].ZkProofValid

\* C2: the verifier accepts only if batch 0 starts from the empty tree root
\* and the zero-totals CEX commitment and every later batch starts from the
\* after root and after CEX commitment of its predecessor.
C2_SerialChain ==
    vpc = "passed" =>
        /\ Len(proofs) >= 1
        /\ proofs[1].AccountTreeRoots[1] = emptyAccountTreeRoot
        /\ proofs[1].CexAssetCommitment[1] =
               ComputeCexAssetsCommitment([TotalEquity |-> 0, TotalDebt |-> 0])
        /\ \A k \in 2..Len(proofs) :
               /\ proofs[k].AccountTreeRoots[1] = proofs[k - 1].AccountTreeRoots[2]
               /\ proofs[k].CexAssetCommitment[1] = proofs[k - 1].CexAssetCommitment[2]

C2_Witness == vpc = "passed" /\ Len(proofs) >= 2

\* C3: the verifier accepts only if the after CEX commitment of the
\* highest-numbered batch is the commitment of the declared totals.
C3_GlobalSolvency ==
    vpc = "passed" =>
        /\ Len(proofs) >= 1
        /\ proofs[Len(proofs)].CexAssetCommitment[2] =
               ComputeCexAssetsCommitment(verifierConfig)

C3_Witness ==
    /\ vpc = "passed"
    /\ Len(proofs) = MaxBatches
    /\ verifierConfig.TotalDebt = 1

\* C4: every batch handed to Groth16 and to the serial pass has a stored
\* batch_commitment equal to Poseidon(before_root, after_root, before_cex,
\* after_cex) of the values recorded for the chain check, and a run with a
\* batch whose stored commitment differs never passes.
C4_CommitmentBinding ==
    /\ \A b \in DOMAIN proofMap :
           proofs[b + 1].BatchCommitment =
               Poseidon4(proofMap[b].accountTreeRoots[1], proofMap[b].accountTreeRoots[2],
                         proofMap[b].cexAssetListCommitments[1],
                         proofMap[b].cexAssetListCommitments[2])
    /\ vpc = "passed" =>
           \A k \in 1..Len(proofs) :
               proofs[k].BatchCommitment =
                   Poseidon4(proofs[k].AccountTreeRoots[1], proofs[k].AccountTreeRoots[2],
                             proofs[k].CexAssetCommitment[1], proofs[k].CexAssetCommitment[2])

C4_Witness ==
    /\ vpc = "panic"
    /\ panicMsg[1] = "verify proof failed"
    /\ DOMAIN proofMap # {}


\* C5: the status of every BatchRecord follows Published -> Received -> Finished:
\* no step moves a status backward, and a record becomes Finished only from
\* Received, with workers in normal or rerun mode.
C5_StatusStateMachine ==
    [][\A h \in Heights :
          /\ witnessStatus'[h] >= witnessStatus[h]
          /\ (witnessStatus'[h] = StatusFinished /\ witnessStatus[h] # StatusFinished)
                => witnessStatus[h] = StatusReceived]_vars

\* C6: exactly-once dispatch: with normal-mode workers, whatever the task queue
\* holds, no height is returned by the Published -> Received fetch-and-update
\* to more than one worker.
C6_ExactlyOnceDispatch ==
    (\A w \in Provers : pmode[w] = "normal")
        => \A h \in Heights : Cardinality(claimedBy[h]) <= 1

AllWorkersReturned == \A w \in Provers : ppc[w] = "done"

MockProverFinalState ==
    /\ \A h \in Heights : witnessStatus[h] = StatusFinished
    /\ Cardinality(proofTable) = NumHeights
    /\ \A h \in Heights : \E row \in proofTable : row.BatchNumber = h

\* C7: with every batch Published and every height enqueued once, workers that
\* loop until the queue is empty all terminate, and from then on every record
\* is Finished and the proof table holds one row per height.
C7_MockProverCompletes == <>[](AllWorkersReturned /\ MockProverFinalState)

C7_Witness ==
    /\ AllWorkersReturned
    /\ MockProverFinalState
    /\ \A w \in Provers : fetched[w] # {}

\* C8: the proof table holds at most one ProofRecord per batch_number, and the
\* writer of a ProofRecord had fetched the batch.
C8_OneProofPerBatch ==
    /\ \A r1 \in proofTable : \A r2 \in proofTable :
          r1.BatchNumber = r2.BatchNumber => r1 = r2
    /\ \A row \in proofTable : row.BatchNumber \in fetched[row.by]

\* two workers took the same batch as far as the insert and one row was written
C8_Witness ==
    \E row \in proofTable : \E w \in Provers \ {row.by} :
        /\ batchHeight[w] = row.BatchNumber
        /\ pexit[w] = "create blockProof failed"

\* C9: a worker whose insert meets an existing ProofRecord of the batch treats
\* it as success: Run does not return because of the duplicate.
C9_DuplicateIsIdempotentSuccess ==
    \A w \in Provers : pexit[w] # "create blockProof failed"

RowsEqualUninterruptedRun ==
    \A n \in 1..Len(witnessTable) :
        witnessTable[n] = UninterruptedRow(PaddedOps(userData), n - 1)

\* heights 0 .. batchIdx-1 are in the witness table, in the channel or in the
\* writer's hand, each once, when batch batchIdx is built
BuildsNextUnwrittenBatch ==
    bpc \in {"exec", "send"}
        => batchIdx = Len(witnessTable) + Len(ch) + (IF wpc = "create" THEN 1 ELSE 0)

\* C10: whatever the point of the crash, the restarted builder resumes at the
\* batch after the latest persisted height (it neither stops on a panic nor
\* builds another batch), and the rows of the witness table, in the order
\* written, are the rows of heights 0, 1, 2, ... of an uninterrupted run on
\* the same input, each written once and in status Published; a run that
\* returns has written every batch.
C10_RecoveryEqualsUninterruptedRun ==
    /\ builderPanic = ""
    /\ RowsEqualUninterruptedRun
    /\ \A n \in 1..Len(witnessTable) :
          witnessTable[n].Height = n - 1 /\ witnessTable[n].Status = StatusPublished
    /\ BuildsNextUnwrittenBatch
    /\ (BuilderRunning /\ treeLatest = recoveredBatchNum + 1)
          => recoveredBatchNum = Len(witnessTable) - 1
    /\ bpc = "finished" => Len(witnessTable) = GetBatchNumber(userData)

\* a run that started after a crash from a persisted height, with the tree
\* ahead of the table, and wrote the remaining batches
C10_Witness ==
    /\ bpc = "finished"
    /\ runs >= 2
    /\ recoveredBatchNum >= 0
    /\ recoveredBatchNum < GetBatchNumber(userData) - 2
    /\ Len(witnessTable) = GetBatchNumber(userData)
    /\ Len(userData[1]) >= 1 /\ Len(userData[2]) >= 1

\* C11: the rows of the witness table are persisted in strictly ascending
\* batch order: the n-th row written has height n - 1, so when the row of
\* height i is written the rows of all lower heights are in the table, for
\* every interleaving of the hasher workers, the tree thread and the writer.
C11_RowsInAscendingOrder ==
    \A n \in 1..Len(witnessTable) : witnessTable[n].Height = n - 1

\* two rows are in the table while the tree thread is ahead of the writer and
\* a hasher worker is still at work
C11_Witness ==
    /\ Len(witnessTable) >= 2
    /\ ch # <<>>
    /\ \E index \in HasherWorkers : hashPos[index] # HasherDone

\* the value of the debt of a list of assets: the sum of debt * price
RECURSIVE DebtValue(_, _)
DebtValue(assets, info) ==
    IF assets = <<>> THEN 0
    ELSE Head(assets).Debt * info[Head(assets).Index].BasePrice + DebtValue(Tail(assets), info)

\* the value of the collateral of a list of assets: the sum of the values
\* after haircut of loan, margin and portfolio margin
RECURSIVE CollateralValue(_, _)
CollateralValue(assets, info) ==
    IF assets = <<>> THEN 0
    ELSE CalculateAssetValueForCollateral(Head(assets).Loan, Head(assets).Margin,
                                          Head(assets).PortfolioMargin,
                                          info[Head(assets).Index])
         + CollateralValue(Tail(assets), info)

\* the amounts of the cells of a row, when every cell of the row is an amount
RowParses(row) ==
    \A j \in 1..Len(row) : \A col \in DOMAIN row[j] : ~ConvertFloatStrToUint64(row[j][col]).err

RowAssets(row) ==
    [j \in 1..Len(row) |->
        [Index |-> j - 1] @@
        [col \in DOMAIN row[j] |-> ConvertFloatStrToUint64(row[j][col]).num]]

AcceptedAccounts == UNION {Range(csvAccounts[k]) : k \in DOMAIN csvAccounts}

\* a step that ends the reading of a row
RowEnds == csvI' = csvI + 1

\* C12: every account ReadUserDataFromCsvFile accepts has a collateral value
\* (haircut values of loan, margin and portfolio margin, summed over its
\* assets) of at least its debt value (debt * price summed over its assets),
\* and a row whose collateral value is below its debt value is counted as
\* invalid and is not among the accepted accounts.
C12_AcceptedAccountsAreSolvent ==
    /\ [](\A account \in AcceptedAccounts :
             /\ CollateralValue(account.Assets, csvCexAssetsInfo)
                  >= DebtValue(account.Assets, csvCexAssetsInfo)
             /\ account.TotalDebt = DebtValue(account.Assets, csvCexAssetsInfo)
             /\ account.TotalCollateral = CollateralValue(account.Assets, csvCexAssetsInfo))
    /\ [][(/\ RowEnds
           /\ Len(csvRow') = AssetCounts
           /\ RowParses(csvRow')
           /\ CollateralValue(RowAssets(csvRow'), csvCexAssetsInfo)
                < DebtValue(RowAssets(csvRow'), csvCexAssetsInfo))
          => (invalidCounts' = invalidCounts + 1 /\ csvAccounts' = csvAccounts)]_vars

\* the file is read: an account with debt was accepted, and the last row was
\* turned down only because its debt is above its collateral
C12_Witness ==
    /\ csvPc = "returned"
    /\ \E account \in AcceptedAccounts : account.TotalDebt > 0
    /\ ~invalidAccountFlag
    /\ Len(csvRow) = AssetCounts
    /\ csvAccount.TotalCollateral < csvAccount.TotalDebt
    /\ invalidCounts > 0

\* C13: ReadUserDataFromCsvFile turns down every row in which, for some
\* asset, loan + margin + portfolio margin is above equity: a row that is
\* accepted has loan + margin + portfolio margin <= equity in every asset.
C13_AcceptedRowsHaveCollateralWithinEquity ==
    [][csvAccounts' # csvAccounts =>
          \A j \in 1..Len(csvRow') :
             LET asset == RowAssets(csvRow')[j]
             IN  asset.Loan + asset.Margin + asset.PortfolioMargin <= asset.Equity]_vars

\* C14: every invalid row is counted and skipped and the reading goes on to
\* the end of the file: the reader never stops at a row, and every row read
\* is either among the accepted accounts or counted as invalid.
C14_InvalidRowsAreCountedAndSkipped ==
    /\ csvPc # "panicked"
    /\ csvPc = "row" => Cardinality(AcceptedAccounts) + invalidCounts = csvI

\* C15: VerifyMerkleProof folds the leaf with the proof from the least
\* significant bit of the index on (bit 0: H(node, proof[i]), bit 1:
\* H(proof[i], node)): it returns true only for the leaf committed at the index
\* under the root, it returns true for that leaf with the tree's proof of the
\* index and false for any other leaf with it, and it returns false whenever
\* the proof has not exactly AccountTreeDepth entries.
C15_MerkleRoundTrip ==
    Returned("VerifyMerkleProof") =>
        LET tree == utilCall[2]
            leafIndex == utilCall[3]
            proof == utilCall[4]
            node == utilCall[5]
            res == utilResult[1]
        IN  /\ res => (node = tree[leafIndex] /\ proof = MerkleProof(tree, leafIndex))
            /\ proof = MerkleProof(tree, leafIndex) => (res <=> node = tree[leafIndex])
            /\ Len(proof) # AccountTreeDepth => ~res

\* the proof of an index with bits 1 and 0 in a tree of distinct siblings is
\* accepted for the committed leaf
C15_Witness ==
    /\ Returned("VerifyMerkleProof")
    /\ utilResult[1]
    /\ utilCall[3] = 1
    /\ utilCall[4][1] # utilCall[4][2]
    /\ utilCall[2][0] # utilCall[2][1]

\* entry k of a flattened list of padded assets
FlatEntry(flatten, k) ==
    [Index |-> flatten[6 * k - 5], Equity |-> flatten[6 * k - 4], Debt |-> flatten[6 * k - 3],
     Loan |-> flatten[6 * k - 2], Margin |-> flatten[6 * k - 1],
     PortfolioMargin |-> flatten[6 * k]]

\* a list of entries is the canonical padded form of a list of assets for a
\* tier: targetCounts entries, indexes strictly ascending in
\* [0, AssetCounts), every asset of the list among them unchanged and every
\* other entry with all amounts zero
CanonicalPadding(entries, assets, targetCounts) ==
    /\ Len(entries) = targetCounts
    /\ \A k \in 1..Len(entries) : entries[k].Index \in 0..(PaddingAssetCounts - 1)
    /\ \A k \in 1..(Len(entries) - 1) : entries[k].Index < entries[k + 1].Index
    /\ \A p \in 1..Len(assets) : \E k \in 1..Len(entries) : entries[k] = assets[p]
    /\ \A k \in 1..Len(entries) :
          (\A p \in 1..Len(assets) : assets[p].Index # entries[k].Index)
              => IsAssetEmpty(entries[k])

\* the entries of an operation of the circuit's witness, each index with the
\* amounts the witness holds for it
CircuitEntries(op) ==
    [k \in 1..Len(op.Assets) |->
        LET meta == op.AssetsForUpdateCex[op.Assets[k].AssetIndex + 1]
        IN  [Index |-> op.Assets[k].AssetIndex, Equity |-> meta.Equity, Debt |-> meta.Debt,
             Loan |-> meta.LoanCollateral, Margin |-> meta.MarginCollateral,
             PortfolioMargin |-> meta.PortfolioMarginCollateral]]

\* C16: for every list of assets that is strictly ascending by index with its
\* indexes in [0, AssetCounts), the padded list PaddingAccountAssets builds
\* for the commitment and the one SetBatchCreateUserCircuitWitness builds for
\* the circuit have exactly T entries (T the smallest tier that fits), indexes
\* strictly ascending in [0, AssetCounts), every real asset unchanged and all
\* amounts of every padding slot zero.
C16_PaddedAssetsAreCanonical ==
    /\ Returned("PaddingAccountAssets") =>
          LET assets == utilCall[2]
              flatten == utilResult[1]
          IN  /\ Len(flatten) = 6 * TierOfCount(Len(assets))
              /\ CanonicalPadding([k \in 1..(Len(flatten) \div 6) |-> FlatEntry(flatten, k)],
                                  assets, TierOfCount(Len(assets)))
    /\ Returned("SetBatchCreateUserCircuitWitness") =>
          \A i \in 1..2 :
             LET assets == SelectSeq(utilCall[i + 1], LAMBDA u : ~IsAssetEmpty(u))
             IN  CanonicalPadding(CircuitEntries(utilResult[1][i]), assets,
                                  TierOfCount(Len(utilCall[2])))

\* a list in the small tier whose padding runs out inside a gap, with one more
\* asset after the gap
C16_Witness ==
    /\ Returned("PaddingAccountAssets")
    /\ Len(utilCall[2]) = 1
    /\ utilCall[2][1].Index = PaddingAssetCounts - 1
    /\ Len(utilResult[1]) = 6 * SmallAssetsTier

\* C17: the commitment ComputeUserAssetsCommitment computes for a sparse list
\* of assets equals the commitment of the test's reference computation over
\* the same amounts in a list of all AssetCounts assets, zero where the list
\* has no asset.
C17_CommitmentEqualsFullLengthReference ==
    Returned("ComputeUserAssetsCommitment") =>
        utilResult[1] = ComputeAssetsCommitmentForTest(FullLengthAssets(utilCall[2]))

\* boundary[i] of a tier list, boundary[-1] = 0 (i counted from 1 here)
BoundaryOf(tiersRatio, i) == IF i = 0 THEN 0 ELSE tiersRatio[i].BoundaryValue

\* precomputed[i] = precomputed[i-1]
\*                  + floor((boundary[i] - boundary[i-1]) * ratio[i] / 100)
RECURSIVE PrecomputedOf(_, _)
PrecomputedOf(tiersRatio, i) ==
    IF i = 0 THEN 0
    ELSE PrecomputedOf(tiersRatio, i - 1)
         + ((BoundaryOf(tiersRatio, i) - BoundaryOf(tiersRatio, i - 1)) * tiersRatio[i].Ratio)
               \div 100

\* C18: for every value v >= 0 and every parsed tier list,
\* CalculateAssetValueViaTiersRatio(v, tiers) is precomputed[i-1] +
\* floor((v - boundary[i-1]) * ratio[i] / 100) for the i with
\* boundary[i-1] < v <= boundary[i], and the precomputed value of the last
\* real tier when v is above the last real boundary; the precomputed values of
\* the list are the cumulative sums of floor((boundary[i] - boundary[i-1]) *
\* ratio[i] / 100).
C18_TieredValuation ==
    Returned("CalculateAssetValueViaTiersRatio") =>
        LET v == utilCall[2]
            real == Len(utilCall[3])
            tiersRatio == utilResult[1].tiersRatio
            value == utilResult[1].value
        IN  /\ Len(tiersRatio) = TierCount
            /\ \A i \in 1..TierCount :
                  tiersRatio[i].PrecomputedValue = PrecomputedOf(tiersRatio, i)
            /\ \A i \in 1..TierCount :
                  (BoundaryOf(tiersRatio, i - 1) < v /\ v <= BoundaryOf(tiersRatio, i))
                     => value = PrecomputedOf(tiersRatio, i - 1)
                                + ((v - BoundaryOf(tiersRatio, i - 1)) * tiersRatio[i].Ratio)
                                      \div 100
            /\ (real > 0 /\ v > BoundaryOf(tiersRatio, real))
                  => value = PrecomputedOf(tiersRatio, real)

\* a value inside the second of two real tiers whose haircut is rounded down,
\* and a value above the last real boundary
C18_Witness ==
    /\ Returned("CalculateAssetValueViaTiersRatio")
    /\ utilCall[3] = <<<<3, 100>>, <<5, 50>>>>
    /\ \/ utilCall[2] = 4 /\ utilResult[1].value = 3
       \/ utilCall[2] = 6 /\ utilResult[1].value = 4

\* the number of valid accounts of a tier in the user files
RealAccounts(files, k) ==
    LET RECURSIVE Count(_)
        Count(i) == IF i = 0 THEN 0
                    ELSE Cardinality({n \in 1..Len(files[i]) : files[i][n] = k}) + Count(i - 1)
    IN  Count(Len(files))

\* C19: after the padding the number of accounts of every tier is a multiple
\* of the tier's operations per batch, every padding account has all-zero
\* assets, and the account indexes of all accounts of all tiers and files are
\* pairwise distinct: the real accounts have exactly the indexes below their
\* number and the padding accounts the indexes that follow.
C19_AccountIndexesAreDistinct ==
    Returned("ParseUserDataSet") =>
        LET files == utilCall[2]
            padded == utilResult[1]
            tiers == Range(AssetCountsTiers)
            totalReal == RealAccounts(files, 1) + RealAccounts(files, 2)
            real == UNION {{padded[k][x].AccountIndex : x \in 1..RealAccounts(files, k)} :
                              k \in tiers}
            synthetic == UNION {{padded[k][x].AccountIndex :
                                    x \in (RealAccounts(files, k) + 1)..Len(padded[k])} :
                                   k \in tiers}
            total == Len(padded[1]) + Len(padded[2])
        IN  /\ \A k \in tiers : Len(padded[k]) % OpsPerBatch(k) = 0
            /\ \A k \in tiers : Len(padded[k]) - RealAccounts(files, k) < OpsPerBatch(k)
            /\ \A k \in tiers : \A x \in (RealAccounts(files, k) + 1)..Len(padded[k]) :
                  /\ padded[k][x].AccountId = 0
                  /\ \A p \in 1..Len(padded[k][x].Assets) :
                        padded[k][x].Assets[p].Equity = 0 /\ padded[k][x].Assets[p].Debt = 0
            /\ real = 0..(totalReal - 1)
            /\ synthetic = totalReal..(total - 1)
            /\ Cardinality(real \cup synthetic) = total

\* three files with accounts of both tiers, and a padding account in the tier
\* of two operations per batch
C19_Witness ==
    /\ Returned("ParseUserDataSet")
    /\ Len(utilCall[2]) = 3
    /\ \A i \in 1..3 : Len(utilCall[2][i]) = 2 /\ utilCall[2][i][1] # utilCall[2][i][2]
    /\ Len(utilResult[1][1]) = 4

\* C20: at every Groth16 prove and verify call for a batch the r1cs, the
\* proving key and the verifying key are those of the tier of the batch's
\* first operation; the parameters are loaded again exactly when that tier is
\* not the one in use, the tier in use changes only once all three are loaded,
\* and a tier that is not configured is fatal.
C20_ParametersOfTheBatchTier ==
    /\ [](snarkPc \in {"prove", "verify"} =>
             /\ targerAssetsCount = Head(snarkBatches)
             /\ R1cs = targerAssetsCount
             /\ ProvingKey = targerAssetsCount
             /\ VerifyingKey = targerAssetsCount
             /\ CurrentSnarkParamsInUse = targerAssetsCount)
    /\ [][/\ snarkPc = "idle" =>
               (snarkPc' = "prove" <=> Head(snarkBatches) = CurrentSnarkParamsInUse)
          /\ (snarkPc = "idle" /\ Head(snarkBatches) \notin Range(snarkConfig)
                 /\ Head(snarkBatches) # CurrentSnarkParamsInUse) => snarkPc' = "panicked"
          /\ <<R1cs, ProvingKey, VerifyingKey>>' # <<R1cs, ProvingKey, VerifyingKey>>
                => targerAssetsCount # CurrentSnarkParamsInUse
          /\ CurrentSnarkParamsInUse' # CurrentSnarkParamsInUse
                => /\ R1cs' = CurrentSnarkParamsInUse'
                   /\ ProvingKey' = CurrentSnarkParamsInUse'
                   /\ VerifyingKey' = CurrentSnarkParamsInUse']_vars

\* the third batch is proved with the parameters of a tier the prover loaded
\* after it had those of the other tier in use
C20_Witness ==
    /\ snarkPc = "verify"
    /\ Len(snarkBatches) = 1
    /\ ProvingKey = Head(snarkBatches)
    /\ ProvingKey # AssetCountsTiers[1]

(***************************************************************************)
(* Claims about the chain scenario, the prover's dispatch and shutdown     *)
(***************************************************************************)
\* the export of n chained batches with valid proofs, the after root of batch
\* k replaced (k = Nil: none replaced); the replaced row carries the commitment
\* of its stored values and a proof groth16.Verify rejects
ChainedProofs(n, k) ==
    [i \in 1..n |-> IF i - 1 = k THEN ProofRow(i - 1, "after_root", FALSE)
                    ELSE ProofRow(i - 1, "none", TRUE)]

DeclaredTotalsOfChain == verifierConfig = [TotalEquity |-> Len(proofs), TotalDebt |-> 0]

VerifierEnded == vpc \in {"passed", "panic"}

\* C21: the verifier accepts N batches chained by their roots; with the after
\* root of a single batch k in 0..N-1 replaced, the serial pass rejects at
\* batch k+1 with a root mismatch.
C21_ChainVerificationScenario ==
    (Len(proofs) >= 1 /\ DeclaredTotalsOfChain) =>
        /\ proofs = ChainedProofs(Len(proofs), Nil) => vpc # "panic"
        /\ \A k \in 0..(Len(proofs) - 1) :
              (proofs = ChainedProofs(Len(proofs), k) /\ VerifierEnded) =>
                  /\ vpc = "panic"
                  /\ panicMsg = <<"account tree root not match", k + 1>>

\* a worker whose Run neither returned nor died
LiveWorker(w) == ppc[w] \notin {"done", "crashed"}

\* the height left the task queue, no running worker has it, and its row still
\* waits for a prover
DequeuedAndLost(h) ==
    /\ h \notin Range(taskQueue)
    /\ \A w \in Provers : ~(LiveWorker(w) /\ batchHeight[w] = h)
    /\ witnessStatus[h] = StatusPublished

\* C22: the dequeue of a height and the Published -> Received update of its
\* row are one atomic step: no step, a crash of a worker between the two
\* included, leaves a height out of the task queue and held by no live worker
\* while its row is Published.
C22_DequeueAndUpdateAreAtomic ==
    [][\A h \in Heights : DequeuedAndLost(h)' => DequeuedAndLost(h)]_vars

\* Run of worker w returns in this step and prints "prover run finish..."
ReturnsWithCompletion(w) ==
    /\ pmode[w] = "normal"
    /\ ppc[w] # "done"
    /\ ppc'[w] = "done"
    /\ pexit'[w] \in {"no task left in task queue", "no published status witness in db"}

\* C23: shutdown by draining: a normal-mode worker returns with completion
\* only in a state where the task queue is empty and no BatchRecord is
\* Published.
C23_ShutdownByDraining ==
    [][\A w \in Provers :
          ReturnsWithCompletion(w) =>
              /\ taskQueue' = <<>>
              /\ \A h \in Heights : witnessStatus'[h] # StatusPublished]_vars

ProofFailed(w) == pexit[w] = "generate and verify proof error"

LowestHeight(hs) == CHOOSE h \in hs : \A g \in hs : h <= g

\* worker w, in rerun mode, makes the query for a row of `status` in this step
RerunQuery(w, status) ==
    /\ pmode[w] = "rerun"
    /\ ppc[w] = (IF status = StatusReceived THEN "fetch" ELSE "fetchPublished")
    /\ ppc'[w] \notin {ppc[w], "crashed"}

RowsOfStatus(status) == {h \in Heights : witnessStatus[h] = status}

\* C25: in rerun mode each iteration selects the Received batch with the
\* lowest height if a Received batch exists, otherwise a Published batch; the
\* loop returns when no Received and no Published batch exists.
C25_RerunSelectsOldestReceived ==
    [][\A w \in Provers :
          /\ RerunQuery(w, StatusReceived) =>
                IF RowsOfStatus(StatusReceived) # {}
                THEN /\ ppc'[w] = "prove"
                     /\ batchHeight'[w] = LowestHeight(RowsOfStatus(StatusReceived))
                ELSE ppc'[w] = "fetchPublished"
          /\ RerunQuery(w, StatusPublished) =>
                IF RowsOfStatus(StatusPublished) # {}
                THEN /\ ppc'[w] = "prove"
                     /\ batchHeight'[w] \in RowsOfStatus(StatusPublished)
                ELSE /\ ppc'[w] = "done"
                     /\ pexit'[w] = "no received status witness in db"]_vars

\* C30: in every reachable state, with workers in normal and rerun mode and
\* crashes at any point, a BatchRecord is Finished only if the proof table
\* holds a ProofRecord with its batch number.
C30_FinishedOnlyWithProof ==
    \A h \in Heights :
        witnessStatus[h] = StatusFinished => \E row \in proofTable : row.BatchNumber = h

\* every batch is Finished, one of them by a rerun-mode worker, after a
\* worker died
C30_Witness ==
    /\ \A h \in Heights : witnessStatus[h] = StatusFinished
    /\ \E row \in proofTable : pmode[row.by] = "rerun"
    /\ \E w \in Provers : ppc[w] = "crashed"

(***************************************************************************)
(* Claims about the witness builder's tree and rows                        *)
(***************************************************************************)
\* the step commits the tree for the batch that was just executed
CommitsBatch == bpc = "exec" /\ bpc' = "send"

\* C26: right after the witness builder commits batch i the latest version of
\* the tree is i + 1; the version grows by exactly 1 per committed batch and
\* never decreases during a run.
C26_TreeVersionFollowsBatches ==
    /\ [](bpc = "send" => treeLatest = batchIdx + 1)
    /\ [][/\ CommitsBatch => (treeLatest' = treeLatest + 1 /\ treeLatest' = batchIdx + 1)
          /\ (BuilderRunning /\ treeLatest' # treeLatest) => CommitsBatch
          /\ BuilderRunning => treeLatest' >= treeLatest]_vars

\* a batch committed by a builder that was restarted after rows were written
C26_Witness ==
    /\ bpc = "send"
    /\ runs >= 2
    /\ recoveredBatchNum >= 0
    /\ treeLatest = batchIdx + 1

\* the greatest height of the witness table, -1 for an empty table
LatestHeight == IF witnessTable = <<>> THEN 0 - 1 ELSE GetLatestBatchWitness.Height

\* the step is the start of Run
RunStarts == bpc \in {"down", "finished"} /\ runs' = runs + 1

TreeStoreUnchanged == treeLatest' = treeLatest /\ treeVersions' = treeVersions

RecordedWitnesses ==
    {row.WitnessData : row \in Range(witnessTable) \cup Range(ch)
                                \cup (IF wData = NoWitness THEN {} ELSE {wData})}
        \cup (IF bpc = "send" THEN {wit.WitnessData} ELSE {})
        \cup (IF bpc = "exec" THEN {wit} ELSE {})

RecordedOps == UNION {Range(w.CreateUserOps) : w \in RecordedWitnesses}

\* the step applies an operation to the tree
AppliesOp == bpc = "exec" /\ opIdx' = opIdx + 1

RowOfHeight(h) == CHOOSE row \in Range(witnessTable) : row.Height = h

WrittenHeights == {row.Height : row \in Range(witnessTable)}

\* the sum of a field of asset a over the operations
RECURSIVE OpsTotal(_, _, _)
OpsTotal(createUserOps, a, field) ==
    IF createUserOps = <<>> THEN 0
    ELSE LET assets == Head(createUserOps).Assets
             own == {q \in 1..Len(assets) : assets[q].Index = a}
             RECURSIVE Sum(_)
             Sum(qs) == IF qs = {} THEN 0
                        ELSE LET q == CHOOSE x \in qs : TRUE
                             IN  (IF field = "Equity" THEN assets[q].Equity
                                  ELSE assets[q].Debt) + Sum(qs \ {q})
         IN  Sum(own) + OpsTotal(Tail(createUserOps), a, field)

\* the CEX totals after the operations of a witness
TotalsAfter(w) ==
    [a \in AssetIndexes |->
        [TotalEquity |-> w.BeforeCexAssets[a].TotalEquity
                            + OpsTotal(w.CreateUserOps, a, "Equity"),
         TotalDebt   |-> w.BeforeCexAssets[a].TotalDebt
                            + OpsTotal(w.CreateUserOps, a, "Debt")]]

\* the roots of the operations of a witness lead from its before root to its
\* after root
OpsChained(w) ==
    LET createUserOps == w.CreateUserOps
    IN  /\ createUserOps # <<>>
        /\ createUserOps[1].BeforeAccountTreeRoot = w.BeforeAccountTreeRoot
        /\ \A i \in 1..(Len(createUserOps) - 1) :
               createUserOps[i].AfterAccountTreeRoot
                   = createUserOps[i + 1].BeforeAccountTreeRoot
        /\ createUserOps[Len(createUserOps)].AfterAccountTreeRoot = w.AfterAccountTreeRoot

\* C29: in the rows of the witness table, written over any number of crashes and
\* restarts, batch 0 starts from the root of the empty tree and the CEX state
\* with zero totals, the before root and before CEX commitment of batch k+1 are
\* the after root and after CEX commitment of batch k, the roots of the
\* operations of a batch lead from its before root to its after root, and the
\* CEX totals after a batch are those before it plus the sums of its operations.
C29_BuilderSideChain ==
    \A h \in WrittenHeights :
        LET w == RowOfHeight(h).WitnessData
        IN  /\ h = 0 => /\ w.BeforeAccountTreeRoot = {}
                        /\ w.BeforeCexAssets = ParseCexAssetInfoFromFile
                        /\ \A a \in AssetIndexes :
                              /\ w.BeforeCexAssets[a].TotalEquity = 0
                              /\ w.BeforeCexAssets[a].TotalDebt = 0
            /\ h > 0 => /\ (h - 1) \in WrittenHeights
                        /\ w.BeforeAccountTreeRoot
                              = RowOfHeight(h - 1).WitnessData.AfterAccountTreeRoot
                        /\ w.BeforeCEXAssetsCommitment
                              = RowOfHeight(h - 1).WitnessData.AfterCEXAssetsCommitment
            /\ w.BeforeCEXAssetsCommitment = HashCexAssets(w.BeforeCexAssets)
            /\ OpsChained(w)
            /\ w.AfterCEXAssetsCommitment = HashCexAssets(TotalsAfter(w))

\* a row written after a restart whose predecessor was written by an earlier
\* process, with several operations and a change of the totals
C29_Witness ==
    /\ runs >= 2
    /\ \E h \in WrittenHeights :
          /\ h > 0
          /\ h > recoveredBatchNum
          /\ recoveredBatchNum # Nil
          /\ recoveredBatchNum >= 0
          /\ Len(RowOfHeight(h).WitnessData.CreateUserOps) >= 2
          /\ TotalsAfter(RowOfHeight(h).WitnessData)
                 # RowOfHeight(h).WitnessData.BeforeCexAssets

\* the workers that hash the account of slot s of batch j of the tier of key k
\* whose first batch is start (part_004 429-447)
WorkersOfSlot(k, start, j, s) ==
    {index \in HasherWorkers :
        /\ index * AverageCount(k) < OpsPerBatch(k)
        /\ LowAccountIndex(index, k, start, j) <= (j - start) * OpsPerBatch(k) + s
        /\ (j - start) * OpsPerBatch(k) + s < HighAccountIndex(index, k, start, j)}

\* the slots of a batch with workersNum workers, by the arithmetic of
\* part_004 426-444 relative to the batch
SlotsOfWorker(workersNum, userOpsPerBatch, index) ==
    LET averageCount == userOpsPerBatch \div workersNum + 1
    IN  {slot \in 0..(userOpsPerBatch - 1) :
            /\ index * averageCount < userOpsPerBatch
            /\ index * averageCount <= slot
            /\ slot < index * averageCount + averageCount}

\* the account whose hash the tree thread is to take next from the slot: that
\* of the batch being executed for the slots not yet taken, that of the next
\* batch of the tier for the others
NextAccountOfSlot(k, slot) ==
    LET rel == batchIdx - startBatchNum
        taken == bpc \in {"exec", "send"} /\ slot < opIdx - rel * OpsPerBatch(k)
        from == IF recoveredBatchNum + 1 - startBatchNum > rel
                THEN recoveredBatchNum + 1 - startBatchNum ELSE rel
    IN  ops[k][(IF taken THEN rel + 1 ELSE from) * OpsPerBatch(k) + slot + 1]

\* C31: every slot of every batch is hashed by exactly one hasher worker, for
\* any number of workers; the hash waiting in the channel of a slot, and the
\* hash the tree thread takes from slot s for operation s of batch j, is the
\* hash of the account at position j_rel * opsPerBatch + s of the tier, also
\* after a recovery that skips the earlier batches.
C31_HasherHandOff ==
    /\ [](/\ \A workersNum \in 1..(HashWorkers + 2) :
                \A k \in DOMAIN BatchCreateUserOpsCountsTiers :
                   \A slot \in 0..(OpsPerBatch(k) - 1) :
                      Cardinality({index \in 0..(workersNum - 1) :
                          slot \in SlotsOfWorker(workersNum, OpsPerBatch(k), index)}) = 1
          /\ BuilderRunning /\ tierPos <= Len(AssetCountsTiers) =>
                LET k == AssetCountsTiers[tierPos]
                IN  /\ \A j \in startBatchNum..(EndBatchNum - 1) :
                          \A slot \in 0..(OpsPerBatch(k) - 1) :
                             Cardinality(WorkersOfSlot(k, startBatchNum, j, slot)) = 1
                    /\ \A slot \in 0..(OpsPerBatch(k) - 1) :
                          accountHashChan[k][slot] # NoHash =>
                             accountHashChan[k][slot]
                                 = AccountInfoToHash(NextAccountOfSlot(k, slot)))
    /\ [][AppliesOp =>
             LET k == AssetCountsTiers[tierPos]
                 rel == batchIdx - startBatchNum
                 slot == opIdx - rel * OpsPerBatch(k)
             IN  /\ accountHashChan[k][slot]
                        = AccountInfoToHash(ops[k][rel * OpsPerBatch(k) + slot + 1])
                 /\ wit'.CreateUserOps[Len(wit'.CreateUserOps)].AfterAccountTreeRoot
                        = TreeSet(treeRoot, ops[k][rel * OpsPerBatch(k) + slot + 1].AccountIndex,
                                  AccountInfoToHash(ops[k][rel * OpsPerBatch(k) + slot + 1]))]_vars

\* after a recovery that skipped a batch of the tier, the hash of a later
\* batch waits in a slot while the batch before it is executed
C31_Witness ==
    /\ bpc = "exec"
    /\ recoveredBatchNum # Nil
    /\ recoveredBatchNum >= startBatchNum
    /\ batchIdx + 1 < EndBatchNum
    /\ opIdx > (batchIdx - startBatchNum) * OpsPerBatch(AssetCountsTiers[tierPos])
    /\ accountHashChan[AssetCountsTiers[tierPos]][0] # NoHash
    /\ accountHashChan[AssetCountsTiers[tierPos]][0]
           = AccountInfoToHash(ops[AssetCountsTiers[tierPos]]
                 [(batchIdx + 1 - startBatchNum) * OpsPerBatch(AssetCountsTiers[tierPos]) + 1])

\* every batch of the user data has its row in the witness table
AllBatchesPersisted == WrittenHeights = 0..(GetBatchNumber(userData) - 1)

\* C32: with every goroutine scheduled fairly and no storage error, the hasher
\* workers, the tree thread and the writer never block each other for ever: a
\* run that is not killed ends, and when it has ended every batch after the
\* recovered height is in the witness table, that is, all batches are.
C32_BuilderTerminates ==
    /\ [](bpc # "panicked")
    /\ BuilderRunning ~> (bpc = "down" \/ (bpc = "finished" /\ AllBatchesPersisted))
    /\ [](bpc = "finished" => AllBatchesPersisted /\ ch = <<>> /\ wData = NoWitness)

\* a run that resumed after a persisted batch has ended with all rows written
C32_Witness ==
    /\ bpc = "finished"
    /\ recoveredBatchNum # Nil
    /\ recoveredBatchNum >= 0
    /\ recoveredBatchNum + 2 < GetBatchNumber(userData)
    /\ AllBatchesPersisted

\* C33: at every Commit of the tree the prune version is at most the height of
\* the latest row the writer has persisted plus 1, however the tree thread and
\* the writer interleave; hence the version h+1 that a restart rolls back to is
\* still in the tree store and the rollback never fails.
C33_PruneVersionBehindWriter ==
    /\ [][CommitsBatch => AccPrunedVersion <= LatestHeight + 1]_vars
    /\ [](/\ treeLatest >= LatestHeight + 1
          /\ (LatestHeight + 1) \in DOMAIN treeVersions
          /\ builderPanic # "rollback failed")

\* a restart has rolled the tree back to a version that was kept while older
\* versions were pruned
C33_Witness ==
    /\ runs >= 2
    /\ bpc = "loop"
    /\ recoveredBatchNum # Nil
    /\ recoveredBatchNum >= 1
    /\ treeLatest = recoveredBatchNum + 1
    /\ 0 \notin DOMAIN treeVersions
    /\ \E v \in DOMAIN treeVersions : v < treeLatest

\* C34: for the operations of a persisted batch (the first a real account, the
\* other a real account of the same tier or the tier's padding account), after
\* the prover has decoded the witness and spread the assets over all
\* AssetCounts indexes, the tier it derives from the first operation is the
\* tier under which the builder batched the accounts, and the padded sequence
\* of (index, equity, debt, loan, margin, portfolio margin) it derives for an
\* operation is the sequence the builder hashed into the operation's leaf.
C34_BuilderAndProverAgree ==
    Returned("SetBatchCreateUserCircuitWitness") =>
        /\ GetNonEmptyAssetsCountOfUser(FullLengthAssets(utilCall[2]))
               = GetAssetsCountOfUser(utilCall[2])
        /\ \A i \in 1..2 :
              /\ Len(utilResult[1][i].Assets) = GetAssetsCountOfUser(utilCall[i + 1])
              /\ FlattenAssets(CircuitEntries(utilResult[1][i]))
                     = PaddingAccountAssets(utilCall[i + 1])

\* a batch of the small tier whose first account has an asset of a high index
\* and whose other account is the padding account of the tier
C34_Witness ==
    /\ Returned("SetBatchCreateUserCircuitWitness")
    /\ Len(utilCall[2]) = 1
    /\ utilCall[2][1].Index = PaddingAssetCounts - 1
    /\ utilCall[3] = PaddingAccountAssetList(SmallAssetsTier)
    /\ Len(utilResult[1][2].Assets) = SmallAssetsTier

\* C35: every tier of a tier list that ParseTiersRatioFromStr returns without
\* an error has its ratio in 0..100: a string with a ratio outside 0..100 is
\* rejected, not stored and not truncated; so the value of a collateral under
\* the tiers is never above the collateral value.
C35_RatioAtMostHundred ==
    (Returned("ParseTiersRatioFromStr") /\ ~utilResult[1].err) =>
        /\ \A i \in 1..Len(utilCall[2]) : utilCall[2][i].ratio.num \in 0..100
        /\ \A i \in 1..TierCount : utilResult[1].tiersRatio[i].Ratio \in 0..100
        /\ utilResult[1].value <= utilCall[3]

\* the sum of the amounts of a field over the first n assets, not reduced
RECURSIVE TrueTotal(_, _, _, _)
TrueTotal(totals, assets, n, field) ==
    IF n = 0 THEN totals[field]
    ELSE TrueTotal(totals, assets, n - 1, field) + AmountOfTotal(assets[n])[field]

\* C36: SafeAdd(a, b) returns a + b when a + b is below 2^64 and aborts the
\* process otherwise; hence each of the five running totals of an asset, in
\* the witness builder and in the replay of the recovery, is the true sum of
\* the amounts added, never that sum modulo 2^64, and the process aborts as
\* soon as a sum does not fit.
C36_CheckedAccumulation ==
    /\ Returned("SafeAdd") =>
          LET a == utilCall[2]
              b == utilCall[3]
          IN  IF a + b < 2^Uint64Bits
              THEN ~utilResult[1].panic /\ utilResult[1].c = a + b
              ELSE utilResult[1].panic
    /\ (Returned("ExecuteBatchCreateUser") \/ Returned("RecoverAfterCexAssets")) =>
          LET totals == utilCall[2]
              assets == utilCall[3]
              fits == \A n \in 1..Len(assets) : \A field \in Range(CexTotalFields) :
                         TrueTotal(totals, assets, n, field) < 2^Uint64Bits
          IN  /\ utilResult[1].panic <=> ~fits
              /\ ~utilResult[1].panic =>
                    \A field \in Range(CexTotalFields) :
                       utilResult[1].totals[field]
                           = TrueTotal(totals, assets, Len(assets), field)

\* a sum that no longer fits aborts the replay of the recovery, and totals that
\* fit are returned by the builder's additions
C36_Witness ==
    \/ /\ Returned("RecoverAfterCexAssets")
       /\ Len(utilCall[3]) = 2
       /\ utilResult[1].panic
       /\ utilCall[2].TotalEquity = 0
    \/ /\ Returned("ExecuteBatchCreateUser")
       /\ Len(utilCall[3]) = 2
       /\ ~utilResult[1].panic
       /\ utilResult[1].totals.TotalDebt = MaxUint64

\* the boundaries and ratios of a tier list
TierConfiguration(tiersRatio) ==
    [i \in 1..Len(tiersRatio) |-> <<tiersRatio[i].BoundaryValue, tiersRatio[i].Ratio>>]

\* C37: over the tier lists the parser and the padder produce (boundaries up
\* to the largest boundary value, the padding entries included, ratios in
\* 0..255), the packing of every two consecutive tiers into one number is
\* injective and stays below the field modulus: two different tier
\* configurations never give the same input of the CEX commitment.
C37_TierPackingInjective ==
    (Returned("ConvertTierRatiosToBytes") /\ ~utilResult[1].err) =>
        LET tiersRatio == utilResult[1].tiersRatio
            packed == utilResult[1].packed
        IN  /\ \A x \in 1..2 : \A i \in 1..Len(packed[x].res) :
                  packed[x].res[i] \in 0..(FrModulus - 1)
            /\ (~packed[1].panic /\ packed[1].res = packed[2].res)
                  => TierConfiguration(tiersRatio[1]) = TierConfiguration(tiersRatio[2])
            /\ \A i \in 1..Len(packed[1].res) :
                  packed[1].res[i] = packed[2].res[i]
                     => /\ TierConfiguration(tiersRatio[1])[2 * i - 1]
                              = TierConfiguration(tiersRatio[2])[2 * i - 1]
                        /\ TierConfiguration(tiersRatio[1])[2 * i]
                              = TierConfiguration(tiersRatio[2])[2 * i]

\* a list of padding entries only against a list whose first tier has boundary
\* 0 and whose second has the largest ratio: the numbers differ
C37_Witness ==
    /\ Returned("ConvertTierRatiosToBytes")
    /\ ~utilResult[1].err
    /\ utilCall[2] = <<>>
    /\ Len(utilCall[3]) = 2
    /\ utilCall[3][1].boundary.num = 0
    /\ utilCall[3][2].ratio.num = 255
    /\ utilResult[1].packed[1].res[1] >= Uint126MaxValueBigInt * Uint126MaxValueBigInt
    /\ utilResult[1].packed[1].res # utilResult[1].packed[2].res

\* no batch has been taken up by a verify worker
NoProofVerified == proofMap = <<>> /\ \A i \in Workers : ~wDone[i]

\* C38: when the declared CEX asset of the configuration has a total equity
\* below its total debt, the verifier in batch mode never reports success: its
\* first step aborts it, before any proof is verified.
C38_InsolventConfigurationAborts ==
    /\ [](verifierConfig.TotalEquity < verifierConfig.TotalDebt
             => vpc \in {"config", "panic"} /\ NoProofVerified)
    /\ [][(verifierConfig.TotalEquity < verifierConfig.TotalDebt /\ vpc = "config")
             => (vpc' = "panic" /\ panicMsg'[1] = "invalid cex asset info")]_vars

\* a configuration with debt above equity over a table of proofs that would
\* otherwise be verified: the verifier has aborted
C38_Witness ==
    /\ verifierConfig.TotalEquity < verifierConfig.TotalDebt
    /\ Len(proofs) >= 1
    /\ vpc = "panic"
    /\ panicMsg[1] = "invalid cex asset info"
    /\ NoProofVerified

\* the accounts in the order main sends them: group after group by ascending
\* asset key, a group in the order of its rows
ExportOrder ==
    LET RECURSIVE Groups(_)
        Groups(i) == IF i > Len(accountAssetKeys) THEN <<>>
                     ELSE accountsMap[accountAssetKeys[i]] \o Groups(i + 1)
    IN Groups(1)

\* the from-th to the to-th account of the export order, Nil behind its end
OrderSlice(from, to) ==
    [i \in 1..(to - from + 1) |->
        IF from + i - 1 \in DOMAIN ExportOrder THEN ExportOrder[from + i - 1] ELSE Nil]

\* account_index of the rows of the table, in insert order
TableIndexes == [i \in 1..Len(userproofTable) |-> userproofTable[i].AccountIndex]

\* account indexes between main and the table: the buffer of WriteDB, the
\* results channel, the job of the worker, the jobs channel
InFlight ==
    (IF writerPc = "recv" THEN [i \in 1..Len(dbProofs) |-> dbProofs[i].AccountIndex]
     ELSE <<>>)
    \o [i \in 1..Len(results) |-> results[i].AccountIndex]
    \o (IF workerPc = "send" THEN <<workerJob.account>> ELSE <<>>)
    \o [i \in 1..Len(jobs) |-> jobs[i].account]

TableComplete ==
    /\ Len(userproofTable) = Len(ExportOrder)
    /\ Range(TableIndexes) = Range(ExportOrder)

\* C39: over every sequence of exporter runs that are killed at any point
\* between two inserts and started again on the same accounts, the table
\* always holds the first accounts of the export order once each; a run takes
\* up exactly the accounts behind those of the table (what is between main and
\* the table continues the table), no insert is rejected and no count
\* mismatches; every insert has InsertSize records but a last, shorter one
\* that completes the table; a run that is not killed finishes, and a
\* finished run leaves exactly one record for every account.
C39_ExporterResumes ==
    /\ [](TableIndexes = OrderSlice(1, Len(userproofTable)))
    /\ [](epc # "panicked")
    /\ [](ExporterRunning =>
             /\ writerNum = Len(userproofTable)
             /\ InFlight = OrderSlice(writerNum + 1, writerNum + Len(InFlight)))
    /\ [][userproofTable' # userproofTable =>
             \/ Len(userproofTable') = Len(userproofTable) + InsertSize
             \/ /\ Len(userproofTable') - Len(userproofTable) \in 1..(InsertSize - 1)
                /\ writerPc' = "done"
                /\ TableComplete']_vars
    /\ [](epc = "finished" => TableComplete)
    /\ ExporterRunning ~> (epc = "down" \/ (epc = "finished" /\ TableComplete))

\* a second or later run has finished: it found rows in the table, sent only
\* the accounts behind them, of two groups in all, and its last insert was a
\* short one
C39_Witness ==
    /\ epc = "finished"
    /\ exportRuns >= 2
    /\ workerNum > 0
    /\ workerNum < Len(ExportOrder)
    /\ Len(accountAssetKeys) = 2
    /\ Len(ExportOrder) % InsertSize # 0
    /\ TableComplete

====
